---- MODULE Spec2Model ----
(***************************************************************************)
(* A model of the candidate-evaluation core of AIInterviewMaster:          *)
(*   - utils/scoring.py   calculate_final_candidate_score and the phase    *)
(*     score calculators                                                   *)
(*   - utils/code_execution.py   execute_code and run_test_cases           *)
(*   - utils/profile_parser.py   match_candidate_to_job                    *)
(*                                                                         *)
(* Scores and weights are Python floats in the source.  They are modelled  *)
(* as exact rationals (records [n, d] in lowest terms), so every           *)
(* statement below is a statement about the real-valued arithmetic of the  *)
(* code and not about the last-bit rounding of IEEE doubles.               *)
(*                                                                         *)
(* Text (stdin, stdout, expected output) is modelled as a sequence of      *)
(* one-character strings.                                                  *)
(***************************************************************************)
EXTENDS Integers, Sequences, FiniteSets, TLC

VARIABLES
    \* ---- utils/scoring.py, config.py
    SCORING_CONFIG,     \* the weight configuration read by the aggregator
    final_args,         \* arguments of the last calculate_final_candidate_score call
    final_result,       \* the dict it returned
    \* ---- utils/code_execution.py: the frame of one execute_code call
    pc,                 \* position inside execute_code
    language,           \* argument: language
    stdin,              \* argument: stdin
    attempts,           \* local: remaining poll attempts
    exec_result,        \* the dict execute_code returned
    posts,              \* judge side: stdin payloads of the POST /submissions requests sent
    polls,              \* judge side: number of GET /submissions/<token> requests sent
    pending_replies,    \* judge side: how many of those were answered queued/processing
    last_reply,         \* judge side: its last answer (to the POST or to a GET)
    \* ---- utils/code_execution.py: the frame of one run_test_cases call
    run_pc,             \* position inside run_test_cases
    test_cases,         \* argument: test_cases
    i,                  \* loop index (0-based, as enumerate gives it)
    results,            \* local: results
    run_result,         \* the dict run_test_cases returned
    exec_calls,         \* history: the stdin of every execute_code call made by the loop
    \* ---- the judge and repeated invocations of run_test_cases
    judge,              \* the judge: free to answer anything, or a deterministic program
    invocation,         \* which invocation of run_test_cases is running (1 or 2)
    first_run_result,   \* what the first invocation returned
    \* ---- utils/profile_parser.py: match_candidate_to_job
    candidate_skills,   \* argument: candidate_skills
    job_skills,         \* argument: job_skills
    match_result,       \* the dict it returned
    \* ---- utils/scoring.py: the phase score calculators
    calc_call,          \* the calculator called and its arguments
    calc_result,        \* the dict it returned
    \* ---- the HTTP handlers (routes/, utils/auth.py) and the database (models.py)
    request,            \* the request being handled
    response,           \* the response the handler returned
    handled,            \* how many requests have been handled
    challenge,          \* the coding_challenge row the request names
    test_case_rows,     \* the test_case rows of that challenge, in query order
    skill_table,        \* the candidate_skill rows, in primary-key order
    candidate_links,    \* the candidate_skills association rows
    assessment_table,   \* the skill_assessment rows, in primary-key order
    user_table,         \* the user rows, in primary-key order
    candidate_table,    \* the candidate rows (the candidate profiles)
    recruiter_table,    \* the recruiter rows (the recruiter profiles)
    interview_table,    \* the interview rows
    issued_tokens       \* the payloads of the tokens generate_token has signed

scoring_vars == <<SCORING_CONFIG, final_args, final_result>>
exec_vars == <<pc, language, stdin, attempts, exec_result, posts, polls,
               pending_replies, last_reply>>
run_vars == <<run_pc, test_cases, i, results, run_result, exec_calls>>
session_vars == <<judge, invocation, first_run_result>>
match_vars == <<candidate_skills, job_skills, match_result>>
calc_vars == <<calc_call, calc_result>>
submit_vars == <<challenge, test_case_rows>>
skill_vars == <<skill_table, candidate_links, assessment_table>>
account_vars == <<user_table, candidate_table, recruiter_table, interview_table,
                  issued_tokens>>
web_vars == <<request, response, handled, submit_vars, skill_vars, account_vars>>
\* everything outside the frames of execute_code and run_test_cases
outer_vars == <<scoring_vars, session_vars, match_vars, calc_vars, web_vars>>
vars == <<scoring_vars, exec_vars, run_vars, session_vars, match_vars, calc_vars, web_vars>>

(***************************************************************************)
(* Bounds of the model.                                                    *)
(***************************************************************************)
\* Phase scores are drawn from the grid 0/ScoreSteps .. ScoreSteps/ScoreSteps.
ScoreSteps == 4
\* run_test_cases is called with at most MaxCases test cases.
MaxCases == 2

(***************************************************************************)
(* Exact rational arithmetic standing for Python's float arithmetic.       *)
(***************************************************************************)
RECURSIVE GCD(_, _)
GCD(a, b) == IF b = 0 THEN a ELSE GCD(b, a % b)

Abs(x) == IF x < 0 THEN -x ELSE x

Rat(n, d) ==
    LET g == GCD(Abs(n), Abs(d))
        s == IF d < 0 THEN -1 ELSE 1
    IN [n |-> (s * n) \div g, d |-> (s * d) \div g]

RatAdd(x, y) == Rat(x.n * y.d + y.n * x.d, x.d * y.d)
RatSub(x, y) == Rat(x.n * y.d - y.n * x.d, x.d * y.d)
RatMul(x, y) == Rat(x.n * y.n, x.d * y.d)
\* x / y; the caller has checked y # 0 (Python raises ZeroDivisionError there)
RatDiv(x, y) == Rat(x.n * y.d, x.d * y.n)
RatGE(x, y) == x.n * y.d >= y.n * x.d
RatLE(x, y) == RatGE(y, x)
Zero == Rat(0, 1)
One == Rat(1, 1)

\* Python's None where a float is expected
None == [n |-> 0, d |-> 0]

(***************************************************************************)
(* config.py: SCORING_CONFIG.  Weights are written in tenths there.        *)
(***************************************************************************)
WeightUnit == 10

DefaultScoringConfig ==
    [profile_weight |-> Rat(2, WeightUnit),
     video_interview_weight |-> Rat(3, WeightUnit),
     coding_challenge_weight |-> Rat(4, WeightUnit),
     managerial_round_weight |-> Rat(1, WeightUnit)]

\* every configuration of non-negative tenths whose four weights sum to 1.0
WeightConfigs ==
    {[profile_weight |-> Rat(a, WeightUnit),
      video_interview_weight |-> Rat(b, WeightUnit),
      coding_challenge_weight |-> Rat(c, WeightUnit),
      managerial_round_weight |-> Rat(WeightUnit - a - b - c, WeightUnit)] :
        <<a, b, c>> \in {t \in (0..WeightUnit) \X (0..WeightUnit) \X (0..WeightUnit) :
                            t[1] + t[2] + t[3] <= WeightUnit}}

ScoreGrid == {Rat(k, ScoreSteps) : k \in 0..ScoreSteps}

(***************************************************************************)
(* utils/scoring.py: calculate_final_candidate_score                       *)
(***************************************************************************)
\* Assessment without the final else branch of line 355
AssessmentNoElse(overall_score) ==
    IF RatGE(overall_score, Rat(85, 100)) THEN "Excellent Candidate"
    ELSE IF RatGE(overall_score, Rat(75, 100)) THEN "Strong Candidate"
    ELSE IF RatGE(overall_score, Rat(65, 100)) THEN "Good Candidate"
    ELSE IF RatGE(overall_score, Rat(5, 10)) THEN "Average Candidate"
    ELSE ""

\* Assessment with the band edges exclusive (> where the code has >=)
AssessmentExclusive(overall_score) ==
    IF ~RatLE(overall_score, Rat(85, 100)) THEN "Excellent Candidate"
    ELSE IF ~RatLE(overall_score, Rat(75, 100)) THEN "Strong Candidate"
    ELSE IF ~RatLE(overall_score, Rat(65, 100)) THEN "Good Candidate"
    ELSE IF ~RatLE(overall_score, Rat(5, 10)) THEN "Average Candidate"
    ELSE "Below Average Candidate"

\* lines 346-356: the qualitative label of an overall score
Assessment(overall_score) ==
    IF RatGE(overall_score, Rat(85, 100)) THEN "Excellent Candidate"
    ELSE IF RatGE(overall_score, Rat(75, 100)) THEN "Strong Candidate"
    ELSE IF RatGE(overall_score, Rat(65, 100)) THEN "Good Candidate"
    ELSE IF RatGE(overall_score, Rat(5, 10)) THEN "Average Candidate"
    ELSE "Below Average Candidate"

\* lines 304-309
Weights(config) ==
    [profile |-> config.profile_weight,
     video |-> config.video_interview_weight,
     coding |-> config.coding_challenge_weight,
     managerial |-> config.managerial_round_weight]

\* AdjustedWeights without the renormalisation (the base weights as they are)
AdjustedWeightsUnscaled(weights) ==
    [profile |-> weights.profile, video |-> weights.video, coding |-> weights.coding]

\* AdjustedWeights dividing by one minus the wrong weight
AdjustedWeightsWrongKey(weights) ==
    [profile |-> RatDiv(weights.profile, RatSub(One, weights.profile)),
     video |-> RatDiv(weights.video, RatSub(One, weights.profile)),
     coding |-> RatDiv(weights.coding, RatSub(One, weights.profile))]

\* lines 330-334
AdjustedWeights(weights) ==
    [profile |-> RatDiv(weights.profile, RatSub(One, weights.managerial)),
     video |-> RatDiv(weights.video, RatSub(One, weights.managerial)),
     coding |-> RatDiv(weights.coding, RatSub(One, weights.managerial))]

\* OverallScore leaving the managerial term out of the four-phase sum
OverallScoreNoManagerialTerm(weights, profile_score, video_score, coding_score, managerial_score) ==
    RatAdd(RatAdd(RatMul(profile_score, weights.profile),
                  RatMul(video_score, weights.video)),
           RatMul(coding_score, weights.coding))

\* lines 322-327 and 337-341
OverallScore(weights, profile_score, video_score, coding_score, managerial_score) ==
    IF managerial_score # None
    THEN RatAdd(RatAdd(RatAdd(RatMul(profile_score, weights.profile),
                              RatMul(video_score, weights.video)),
                       RatMul(coding_score, weights.coding)),
                RatMul(managerial_score, weights.managerial))
    ELSE LET adjusted_weights == AdjustedWeights(weights)
         IN RatAdd(RatAdd(RatMul(profile_score, adjusted_weights.profile),
                          RatMul(video_score, adjusted_weights.video)),
                   RatMul(coding_score, adjusted_weights.coding))

\* The returned dict: `keys` is the set of keys it holds; a field whose key is
\* absent holds a filler value.
calculate_final_candidate_score(config, profile_score, video_score, coding_score, managerial_score) ==
    LET weights == Weights(config)
    IN IF managerial_score = None /\ RatSub(One, weights.managerial) = Zero
       THEN \* ZeroDivisionError at line 331, caught at line 360
            [keys |-> {"error", "overall_candidate_score"},
             error |-> "float division by zero",
             overall_candidate_score |-> Zero,
             assessment |-> ""]
       ELSE LET overall_score == OverallScore(weights, profile_score, video_score,
                                              coding_score, managerial_score)
            IN [keys |-> {"profile_score", "video_score", "coding_score",
                          "overall_candidate_score", "assessment"}
                         \cup (IF managerial_score # None
                               THEN {"managerial_score"} ELSE {}),
                error |-> "",
                overall_candidate_score |-> overall_score,
                assessment |-> Assessment(overall_score)]

NoCall == [profile_score |-> None, video_score |-> None, coding_score |-> None,
           managerial_score |-> None]
NoResult == [keys |-> {}, error |-> "", overall_candidate_score |-> Zero,
             assessment |-> ""]

InitScoring ==
    /\ SCORING_CONFIG \in WeightConfigs
    /\ final_args = NoCall
    /\ final_result = NoResult

IdleScoring ==
    /\ SCORING_CONFIG = DefaultScoringConfig
    /\ final_args = NoCall
    /\ final_result = NoResult

\* One call calculate_final_candidate_score(p, v, c, m) with in-range scores.
CalculateFinal ==
    /\ final_result = NoResult
    /\ \E p \in ScoreGrid, v \in ScoreGrid, c \in ScoreGrid,
          m \in ScoreGrid \cup {None} :
        /\ final_args' = [profile_score |-> p, video_score |-> v,
                          coding_score |-> c, managerial_score |-> m]
        /\ final_result' = calculate_final_candidate_score(SCORING_CONFIG, p, v, c, m)
    /\ UNCHANGED <<SCORING_CONFIG, exec_vars, run_vars, session_vars, match_vars, calc_vars, web_vars>>

(***************************************************************************)
(* Text.  Python's str.strip() removes leading and trailing whitespace.    *)
(***************************************************************************)
Whitespace == {" ", "\n", "\t"}

RECURSIVE LStrip(_)
LStrip(s) == IF s # <<>> /\ Head(s) \in Whitespace THEN LStrip(Tail(s)) ELSE s

RECURSIVE RStrip(_)
RStrip(s) ==
    IF s # <<>> /\ s[Len(s)] \in Whitespace THEN RStrip(SubSeq(s, 1, Len(s) - 1)) ELSE s

Strip(s) == RStrip(LStrip(s))

(***************************************************************************)
(* The wire encoding (base64).  It is modelled character by character as   *)
(* an injective recoding into an alphabet disjoint from the text alphabet, *)
(* so that encoded and decoded text are never equal unless empty.          *)
(***************************************************************************)
B64Char(c) ==
    CASE c = "a" -> "YQ"
      [] c = "b" -> "Yg"
      [] c = "1" -> "MQ"
      [] c = "2" -> "Mg"
      [] c = " " -> "IA"
      [] c = "\n" -> "Cg"
      [] c = "\t" -> "CQ"

UnB64Char(w) ==
    CASE w = "YQ" -> "a"
      [] w = "Yg" -> "b"
      [] w = "MQ" -> "1"
      [] w = "Mg" -> "2"
      [] w = "IA" -> " "
      [] w = "Cg" -> "\n"
      [] w = "CQ" -> "\t"

b64encode(s) == [k \in 1..Len(s) |-> B64Char(s[k])]
b64decode(w) == [k \in 1..Len(w) |-> UnB64Char(w[k])]

\* JSON null / a missing key, as .get() returns it
JsonNull == <<"null">>
\* Python truthiness of a wire string: None and "" are falsy
Truthy(w) == w # JsonNull /\ w # <<>>

(***************************************************************************)
(* config.py: SUPPORTED_LANGUAGES, and get_language_id                     *)
(***************************************************************************)
SUPPORTED_LANGUAGES ==
    [python |-> 71, javascript |-> 63, java |-> 62, c |-> 50, cpp |-> 54,
     csharp |-> 51, go |-> 60, ruby |-> 72, rust |-> 73, typescript |-> 74]

\* the language arguments the model calls execute_code with
LanguageInputs == {"python", "Python", "cobol"}

\* str.lower() on the names of the model
Lower(name) ==
    CASE name = "Python" -> "python"
      [] name = "SQL" -> "sql"
      [] name = "Go" -> "go"
      [] OTHER -> name

\* get_language_id falling back to the first table entry for an unknown name
get_language_id_with_default(lang) ==
    IF Lower(lang) \in DOMAIN SUPPORTED_LANGUAGES
    THEN SUPPORTED_LANGUAGES[Lower(lang)]
    ELSE SUPPORTED_LANGUAGES["python"]

\* SUPPORTED_LANGUAGES.get(language.lower()); 0 stands for None
get_language_id(lang) ==
    IF Lower(lang) \in DOMAIN SUPPORTED_LANGUAGES
    THEN SUPPORTED_LANGUAGES[Lower(lang)]
    ELSE 0

(***************************************************************************)
(* The judge (Judge0), an external collaborator: what it may answer.       *)
(***************************************************************************)
\* answers that make requests raise a RequestException
TransportErrors == {"HTTPError", "ConnectionError"}
\* answers that make the code raise another exception (a body that is not
\* JSON, a JSON value of the wrong shape, text that is not base64)
MalformedErrors == {"ValueError"}

\* answers to POST /submissions
PostReplies ==
    {[kind |-> k] : k \in TransportErrors \cup MalformedErrors \cup {"token", "no_token"}}

\* status ids: 1 In Queue, 2 Processing, 3 Accepted, 6 Compilation Error;
\* 0 stands for a status object without an id (Python None)
PendingStatusIds == {1, 2}
TerminalStatusIds == {3, 6, 0}

StdoutWire == {JsonNull, b64encode(<<"a">>), b64encode(<<" ", "a", "\n">>),
               b64encode(<<"b">>)}

\* answers to GET /submissions/<token>
PollReplies ==
    {[kind |-> k, status_id |-> 0, stdout |-> JsonNull] :
        k \in TransportErrors \cup MalformedErrors}
    \cup {[kind |-> "json", status_id |-> id, stdout |-> JsonNull] :
            id \in PendingStatusIds}
    \cup {[kind |-> "json", status_id |-> id, stdout |-> w] :
            id \in TerminalStatusIds, w \in StdoutWire}

NoReply == [kind |-> "none", status_id |-> 0, stdout |-> JsonNull]

\* A deterministic judge is a program: what it answers depends only on the
\* stdin it was sent.  It accepts every submission, answers "processing" to
\* the first `pending` polls of a submission and `answer` to the next one.
JudgeScripts ==
    {[pending |-> 0, answer |-> [kind |-> "json", status_id |-> 3, stdout |-> b64encode(<<"a">>)]],
     [pending |-> 1, answer |-> [kind |-> "json", status_id |-> 3, stdout |-> b64encode(<<"b">>)]],
     [pending |-> 10, answer |-> [kind |-> "json", status_id |-> 3, stdout |-> b64encode(<<"a">>)]],
     [pending |-> 0, answer |-> [kind |-> "HTTPError", status_id |-> 0, stdout |-> JsonNull]]}

\* the judge that may answer anything
AnyJudge ==
    [deterministic |-> FALSE,
     program |-> [payload \in {<<>>} |-> [pending |-> 0, answer |-> NoReply]]]

\* the answers the judge may give to POST /submissions
PostAnswers == IF judge.deterministic THEN {[kind |-> "token"]} ELSE PostReplies

\* the answers the judge may give to the next GET of the submission posted
PollAnswers ==
    IF judge.deterministic
    THEN LET script == judge.program[b64decode(posts[Len(posts)])]
         IN {IF polls < script.pending
             THEN [kind |-> "json", status_id |-> 2, stdout |-> JsonNull]
             ELSE script.answer}
    ELSE PollReplies

(***************************************************************************)
(* utils/code_execution.py: execute_code                                   *)
(***************************************************************************)
\* line 88
MaxAttempts == 10

ErrorResult(message) ==
    [status |-> "error", message |-> message, status_id |-> 0, stdout |-> <<>>]

\* SuccessResult reporting success for the Accepted status (3) alone
SuccessResultAcceptedOnly(status_id, stdout) ==
    IF status_id = 3
    THEN [status |-> "success", message |-> <<>>, status_id |-> status_id, stdout |-> stdout]
    ELSE [status |-> "error", message |-> <<"Execution failed">>, status_id |-> status_id,
          stdout |-> <<>>]

\* lines 112-123
SuccessResult(status_id, stdout) ==
    [status |-> "success", message |-> <<>>, status_id |-> status_id, stdout |-> stdout]

NoExecResult == [status |-> "none", message |-> <<>>, status_id |-> 0, stdout |-> <<>>]

UnsupportedMessage(lang) == <<"Unsupported language: ", lang>>
NoTokenMessage == <<"Failed to create submission">>
TimeoutMessage == <<"Timeout waiting for execution results">>
\* the handlers at lines 127-132
ExceptionMessage(e) ==
    IF e \in TransportErrors THEN <<"Request error: ", e>> ELSE <<"Execution error: ", e>>

\* HandleException with only the RequestException handler: any other
\* exception leaves execute_code and reaches the caller
HandleRequestExceptionOnly(e) ==
    IF e \in TransportErrors
    THEN ErrorResult(ExceptionMessage(e))
    ELSE [status |-> "raised", message |-> <<e>>, status_id |-> 0, stdout |-> <<>>]

\* lines 127-132: both handlers turn the exception into an error result
HandleException(e) == ErrorResult(ExceptionMessage(e))

\* WhileCondition leaving the loop one attempt early
WhileConditionOffByOne(attempts_left) == attempts_left > 1

\* line 89: the test of the polling loop
WhileCondition(attempts_left) == attempts_left > 0

\* NextAttempts without the decrement
NextAttemptsForgotten(attempts_left) == attempts_left

\* line 102: attempts -= 1
NextAttempts(attempts_left) == attempts_left - 1

\* line 108: the decoded stdout of a status object
DecodeStdout(w) == IF Truthy(w) THEN b64decode(w) ELSE <<>>

\* line 44: the stdin payload of the submission
EncodeStdin(s) == IF s # <<>> THEN b64encode(s) ELSE <<>>

\* lines 35-40: the language check
ExecLookupLanguage ==
    /\ pc = "start"
    /\ IF get_language_id(language) = 0
       THEN /\ exec_result' = ErrorResult(UnsupportedMessage(language))
            /\ pc' = "done"
       ELSE /\ exec_result' = exec_result
            /\ pc' = "post"
    /\ UNCHANGED <<language, stdin, attempts, posts, polls, pending_replies, last_reply>>
    /\ UNCHANGED <<outer_vars, run_vars>>

\* lines 73-88: POST /submissions and the judge's answer to it
ExecCreateSubmission ==
    /\ pc = "post"
    /\ posts' = Append(posts, EncodeStdin(stdin))
    /\ \E reply \in PostAnswers :
        /\ last_reply' = [kind |-> reply.kind, status_id |-> 0, stdout |-> JsonNull]
        /\ IF reply.kind \in TransportErrors \cup MalformedErrors
           THEN /\ exec_result' = HandleException(reply.kind)
                /\ pc' = "done"
                /\ attempts' = attempts
           ELSE IF reply.kind = "no_token"
           THEN /\ exec_result' = ErrorResult(NoTokenMessage)
                /\ pc' = "done"
                /\ attempts' = attempts
           ELSE /\ exec_result' = exec_result
                /\ pc' = "poll"
                /\ attempts' = MaxAttempts
    /\ UNCHANGED <<language, stdin, polls, pending_replies>>
    /\ UNCHANGED <<outer_vars, run_vars>>

\* lines 89-125: one turn of the polling loop: GET /submissions/<token>, the
\* judge's answer and, after a queued/processing answer, the loop test that follows
ExecPoll ==
    /\ pc = "poll"
    /\ WhileCondition(attempts)
    /\ polls' = polls + 1
    /\ \E reply \in PollAnswers :
        /\ last_reply' = reply
        /\ IF reply.kind # "json"
           THEN /\ exec_result' = HandleException(reply.kind)
                /\ pc' = "done"
                /\ UNCHANGED <<attempts, pending_replies>>
           ELSE IF reply.status_id \in PendingStatusIds
           THEN /\ attempts' = NextAttempts(attempts)
                /\ pending_replies' = pending_replies + 1
                /\ IF WhileCondition(NextAttempts(attempts))
                   THEN /\ pc' = "poll"
                        /\ exec_result' = exec_result
                   ELSE /\ pc' = "done"
                        /\ exec_result' = ErrorResult(TimeoutMessage)
           ELSE /\ exec_result' = SuccessResult(reply.status_id, DecodeStdout(reply.stdout))
                /\ pc' = "done"
                /\ UNCHANGED <<attempts, pending_replies>>
    /\ UNCHANGED <<language, stdin, posts>>
    /\ UNCHANGED <<outer_vars, run_vars>>

execute_code == ExecLookupLanguage \/ ExecCreateSubmission \/ ExecPoll

\* the stdin arguments the model calls execute_code with
StdinInputs == {<<>>, <<"1">>, <<"2">>}

\* a fresh frame of execute_code(source_code, lang, stdin=input_data)
EnterExecute(lang, input_data) ==
    /\ pc' = "start"
    /\ language' = lang
    /\ stdin' = input_data
    /\ attempts' = 0
    /\ exec_result' = NoExecResult
    /\ posts' = <<>>
    /\ polls' = 0
    /\ pending_replies' = 0
    /\ last_reply' = NoReply

IdleExecute ==
    /\ pc = "idle"
    /\ stdin = <<>>
    /\ attempts = 0
    /\ exec_result = NoExecResult
    /\ posts = <<>>
    /\ polls = 0
    /\ pending_replies = 0
    /\ last_reply = NoReply

(***************************************************************************)
(* utils/code_execution.py: run_test_cases                                 *)
(***************************************************************************)
\* the test case dicts the model calls run_test_cases with
TestCaseInputs ==
    {[input |-> <<"1">>, expected_output |-> <<"a">>],
     [input |-> <<"2">>, expected_output |-> <<"a", "\n">>],
     [input |-> <<>>, expected_output |-> <<>>]}

RECURSIVE SeqsUpTo(_, _)
SeqsUpTo(S, n) ==
    IF n = 0 THEN {<<>>}
    ELSE LET shorter == SeqsUpTo(S, n - 1)
         IN shorter \cup {Append(q, x) : q \in {r \in shorter : Len(r) = n - 1}, x \in S}

\* TestCaseResult numbering the results from 0, as enumerate does
TestCaseResultZeroBased(idx, test_case, execution_result) ==
    LET input_data == test_case.input
        expected_output == Strip(test_case.expected_output)
        failed == execution_result.status = "error"
        actual_output == Strip(execution_result.stdout)
    IN [test_case_id |-> idx,
        passed |-> (~failed /\ actual_output = expected_output),
        input |-> input_data,
        expected_output |-> expected_output,
        actual_output |-> IF failed THEN <<"Execution error">> ELSE actual_output,
        error_message |-> IF failed THEN execution_result.message ELSE <<>>]

\* TestCaseResult comparing the outputs as they come, without strip()
TestCaseResultUnstripped(idx, test_case, execution_result) ==
    LET input_data == test_case.input
        expected_output == test_case.expected_output
        failed == execution_result.status = "error"
        actual_output == execution_result.stdout
    IN [test_case_id |-> idx + 1,
        passed |-> (~failed /\ actual_output = expected_output),
        input |-> input_data,
        expected_output |-> expected_output,
        actual_output |-> IF failed THEN <<"Execution error">> ELSE actual_output,
        error_message |-> IF failed THEN execution_result.message ELSE <<>>]

\* TestCaseResult reading the error text from a key the executor never sets
TestCaseResultUnknownError(idx, test_case, execution_result) ==
    LET input_data == test_case.input
        expected_output == Strip(test_case.expected_output)
        failed == execution_result.status = "error"
        actual_output == Strip(execution_result.stdout)
    IN [test_case_id |-> idx + 1,
        passed |-> (~failed /\ actual_output = expected_output),
        input |-> input_data,
        expected_output |-> expected_output,
        actual_output |-> IF failed THEN <<"Execution error">> ELSE actual_output,
        error_message |-> IF failed THEN <<"Unknown error">> ELSE <<>>]

\* lines 155-181: the entry appended to results for the test case at index idx
TestCaseResult(idx, test_case, execution_result) ==
    LET input_data == test_case.input
        expected_output == Strip(test_case.expected_output)
    IN IF execution_result.status = "error"
       THEN [test_case_id |-> idx + 1,
             passed |-> FALSE,
             input |-> input_data,
             expected_output |-> expected_output,
             actual_output |-> <<"Execution error">>,
             error_message |-> execution_result.message]
       ELSE LET actual_output == Strip(execution_result.stdout)
            IN [test_case_id |-> idx + 1,
                passed |-> (actual_output = expected_output),
                input |-> input_data,
                expected_output |-> expected_output,
                actual_output |-> actual_output,
                error_message |-> <<>>]

\* TestRunResult counting every result as passed
TestRunResultCountsAll(cases, res) ==
    LET total_cases == Len(cases)
        passed_cases == Len(res)
    IN [status |-> "success",
        total_test_cases |-> total_cases,
        passed_test_cases |-> passed_cases,
        success_rate |-> IF total_cases > 0 THEN Rat(passed_cases, total_cases) ELSE Zero,
        results |-> res]

\* lines 184-193: the returned dict
TestRunResult(cases, res) ==
    LET total_cases == Len(cases)
        passed_cases == Cardinality({k \in 1..Len(res) : res[k].passed})
    IN [status |-> "success",
        total_test_cases |-> total_cases,
        passed_test_cases |-> passed_cases,
        success_rate |-> IF total_cases > 0 THEN Rat(passed_cases, total_cases) ELSE Zero,
        results |-> res]

NoRunResult ==
    [status |-> "none", total_test_cases |-> 0, passed_test_cases |-> 0,
     success_rate |-> Zero, results |-> <<>>]

\* lines 148-153: the loop takes the next test case and calls execute_code on its input
RunExecuteCase ==
    /\ run_pc = "loop"
    /\ pc = "idle"
    /\ i < Len(test_cases)
    /\ EnterExecute(language, test_cases[i + 1].input)
    /\ exec_calls' = Append(exec_calls, test_cases[i + 1].input)
    /\ UNCHANGED <<run_pc, test_cases, i, results, run_result>>
    /\ UNCHANGED outer_vars

\* lines 155-181: execute_code has returned; its result is appended
RunAppendResult ==
    /\ run_pc = "loop"
    /\ pc = "done"
    /\ results' = Append(results, TestCaseResult(i, test_cases[i + 1], exec_result))
    /\ i' = i + 1
    /\ pc' = "idle"
    /\ stdin' = <<>>
    /\ attempts' = 0
    /\ exec_result' = NoExecResult
    /\ posts' = <<>>
    /\ polls' = 0
    /\ pending_replies' = 0
    /\ last_reply' = NoReply
    /\ UNCHANGED <<language, run_pc, test_cases, run_result, exec_calls>>
    /\ UNCHANGED outer_vars

\* lines 183-193: the loop is over
RunReturn ==
    /\ run_pc = "loop"
    /\ pc = "idle"
    /\ i = Len(test_cases)
    /\ run_result' = TestRunResult(test_cases, results)
    /\ run_pc' = "done"
    /\ UNCHANGED <<test_cases, i, results, exec_calls>>
    /\ UNCHANGED <<exec_vars, outer_vars>>

\* a results list that outlives the call (a list kept outside the function)
StaleResults == results

\* line 146: results = []
FreshResults == <<>>

\* run_test_cases is invoked a second time with the same source code,
\* language and test cases as the first time
RunAgain ==
    /\ run_pc = "done"
    /\ invocation = 1
    /\ pc = "idle"
    /\ first_run_result' = run_result
    /\ invocation' = 2
    /\ run_pc' = "loop"
    /\ i' = 0
    /\ results' = FreshResults
    /\ run_result' = NoRunResult
    /\ exec_calls' = <<>>
    /\ UNCHANGED <<test_cases, judge>>
    /\ UNCHANGED <<exec_vars, scoring_vars, match_vars, calc_vars, web_vars>>

IdleRun ==
    /\ run_pc = "idle"
    /\ test_cases = <<>>
    /\ i = 0
    /\ results = <<>>
    /\ run_result = NoRunResult
    /\ exec_calls = <<>>

NoMatchResult == [keys |-> {}]
IdleMatch ==
    /\ candidate_skills = <<>>
    /\ job_skills = [keys |-> {}, essential_skills |-> <<>>, preferred_skills |-> <<>>]
    /\ match_result = NoMatchResult

NoCalcCall == [name |-> "none", args |-> <<>>]
NoCalcResult == [keys |-> {}]
IdleCalc ==
    /\ calc_call = NoCalcCall
    /\ calc_result = NoCalcResult

IdleSession ==
    /\ judge = AnyJudge
    /\ invocation = 1
    /\ first_run_result = NoRunResult

\* a nullable column holds <<>> for NULL and <<v>> for the value v
Null == <<>>
Some(v) == <<v>>

NoRequest == [name |-> "none"]
NoResponse == [status |-> 0, error |-> "none"]
NoChallenge ==
    [id |-> 0, candidate_id |-> 0, language |-> "python", code_submission |-> Null,
     correctness_score |-> Null, time_complexity_score |-> Null,
     space_complexity_score |-> Null, style_score |-> Null, overall_score |-> Null]
IdleSubmit ==
    /\ challenge = NoChallenge
    /\ test_case_rows = <<>>
IdleSkills ==
    /\ skill_table = <<>>
    /\ candidate_links = {}
    /\ assessment_table = <<>>
IdleAccounts ==
    /\ user_table = <<>>
    /\ candidate_table = <<>>
    /\ recruiter_table = <<>>
    /\ interview_table = <<>>
    /\ issued_tokens = {}
IdleWeb ==
    /\ request = NoRequest
    /\ response = NoResponse
    /\ handled = 0
    /\ IdleSubmit
    /\ IdleSkills
    /\ IdleAccounts

(***************************************************************************)
(* Specifications.                                                         *)
(***************************************************************************)
\* calculate_final_candidate_score on every configuration and in-range input
InitFinal ==
    /\ IdleWeb
    /\ InitScoring
    /\ IdleExecute
    /\ language = "python"
    /\ IdleRun
    /\ IdleSession
    /\ IdleMatch
    /\ IdleCalc
NextFinal == CalculateFinal
SpecFinal == InitFinal /\ [][NextFinal]_vars

\* one call execute_code(source_code, language, stdin) against any judge
InitExecute ==
    /\ IdleWeb
    /\ IdleScoring
    /\ IdleRun
    /\ IdleSession
    /\ IdleMatch
    /\ IdleCalc
    /\ pc = "start"
    /\ language \in LanguageInputs
    /\ stdin \in StdinInputs
    /\ attempts = 0
    /\ exec_result = NoExecResult
    /\ posts = <<>>
    /\ polls = 0
    /\ pending_replies = 0
    /\ last_reply = NoReply
NextExecute == execute_code
SpecExecute == InitExecute /\ [][NextExecute]_vars
\* the interpreter runs the call to its end as long as every request is answered
FairSpecExecute == SpecExecute /\ WF_vars(NextExecute)

\* one call run_test_cases(source_code, language, test_cases) against any judge
InitRun ==
    /\ IdleWeb
    /\ IdleScoring
    /\ IdleExecute
    /\ IdleSession
    /\ IdleMatch
    /\ IdleCalc
    /\ language \in LanguageInputs
    /\ run_pc = "loop"
    /\ test_cases \in SeqsUpTo(TestCaseInputs, MaxCases)
    /\ i = 0
    /\ results = <<>>
    /\ run_result = NoRunResult
    /\ exec_calls = <<>>
NextRun == RunExecuteCase \/ execute_code \/ RunAppendResult \/ RunReturn
SpecRun == InitRun /\ [][NextRun]_vars

DeterministicJudges ==
    {[deterministic |-> TRUE, program |-> p] : p \in [StdinInputs -> JudgeScripts]}

\* two invocations of run_test_cases with identical arguments against a
\* deterministic judge
InitRunTwice ==
    /\ IdleWeb
    /\ IdleScoring
    /\ IdleExecute
    /\ IdleMatch
    /\ IdleCalc
    /\ judge \in DeterministicJudges
    /\ invocation = 1
    /\ first_run_result = NoRunResult
    /\ language \in LanguageInputs
    /\ run_pc = "loop"
    /\ test_cases \in SeqsUpTo(TestCaseInputs, MaxCases)
    /\ i = 0
    /\ results = <<>>
    /\ run_result = NoRunResult
    /\ exec_calls = <<>>
NextRunTwice == RunExecuteCase \/ execute_code \/ RunAppendResult \/ RunReturn \/ RunAgain
SpecRunTwice == InitRunTwice /\ [][NextRunTwice]_vars

(***************************************************************************)
(* match_candidate_to_job (src/utils/profile_parser.py).                   *)
(***************************************************************************)
MaxCandidateSkills == 2
MaxTierSkills == 2

\* candidate skill entries; the last one lacks its "confidence" key
CandidateEntries ==
    {[keys |-> {"skill", "confidence"}, skill |-> "python", confidence |-> Rat(1, 2)],
     [keys |-> {"skill", "confidence"}, skill |-> "Python", confidence |-> Rat(9, 10)],
     [keys |-> {"skill", "confidence"}, skill |-> "SQL", confidence |-> Rat(3, 5)],
     [keys |-> {"skill"}, skill |-> "Go", confidence |-> None]}

\* required skill items of a job; the second one has no "context" key
JobItems ==
    {[keys |-> {"skill", "context"}, skill |-> "Python", context |-> "backend"],
     [keys |-> {"skill"}, skill |-> "sql", context |-> ""],
     [keys |-> {"skill", "context"}, skill |-> "Go", context |-> "services"]}

JobSkillInputs ==
    {[keys |-> {"essential_skills", "preferred_skills"},
      essential_skills |-> e, preferred_skills |-> p] :
        e \in SeqsUpTo(JobItems, MaxTierSkills), p \in SeqsUpTo(JobItems, MaxTierSkills)}
    \cup {[keys |-> {"essential_skills"}, essential_skills |-> e, preferred_skills |-> <<>>] :
        e \in SeqsUpTo(JobItems, MaxTierSkills)}
    \cup {[keys |-> {"preferred_skills"}, essential_skills |-> <<>>, preferred_skills |-> p] :
        p \in SeqsUpTo(JobItems, MaxTierSkills)}

\* a dict keeping the value already stored under a key
DictSetDefault(d, k, v) ==
    [x \in DOMAIN d \cup {k} |-> IF x \in DOMAIN d THEN d[x] ELSE v]

\* d[k] = v
DictUpdate(d, k, v) ==
    [x \in DOMAIN d \cup {k} |-> IF x = k THEN v ELSE d[x]]

EmptyDict == [x \in {} |-> None]

\* line 315: {skill["skill"].lower(): skill["confidence"] for skill in candidate_skills}
RECURSIVE candidate_skill_dict(_)
candidate_skill_dict(skills) ==
    IF skills = <<>>
    THEN EmptyDict
    ELSE LET skill == skills[Len(skills)]
         IN DictUpdate(candidate_skill_dict(SubSeq(skills, 1, Len(skills) - 1)),
                       Lower(skill.skill), skill.confidence)

\* skill["confidence"] raises KeyError for an entry without that key
ComprehensionRaises(skills) ==
    \E k \in 1..Len(skills) : "confidence" \notin skills[k].keys

\* job_skills.get(tier, [])
TierItems(job, tier) == IF tier \in job.keys THEN job[tier] ELSE <<>>

\* skill_item.get("context", "")
JobContext(skill_item) ==
    IF "context" \in skill_item.keys THEN skill_item.context ELSE ""

\* a lookup by the name as written in the job
InCandidateDictCaseSensitive(skill_item, dict) == skill_item.skill \in DOMAIN dict

\* lines 328, 345: skill_lower in candidate_skill_dict
InCandidateDict(skill_item, dict) == Lower(skill_item.skill) \in DOMAIN dict

\* lines 329-333, 346-350
MatchEntry(skill_item, dict) ==
    [keys |-> {"skill", "confidence", "job_context"},
     skill |-> skill_item.skill,
     confidence |-> dict[Lower(skill_item.skill)],
     job_context |-> JobContext(skill_item)]

\* lines 335-338, 352-355
GapEntry(skill_item) ==
    [keys |-> {"skill", "job_context"},
     skill |-> skill_item.skill,
     confidence |-> None,
     job_context |-> JobContext(skill_item)]

\* the matches list a tier's loop builds (lines 324-333, 341-350)
TierMatches(items, dict) ==
    LET hit == SelectSeq(items, LAMBDA it : InCandidateDict(it, dict))
    IN [k \in 1..Len(hit) |-> MatchEntry(hit[k], dict)]

\* the gaps list a tier's loop builds (lines 334-338, 351-355)
TierGaps(items, dict) ==
    LET miss == SelectSeq(items, LAMBDA it : ~InCandidateDict(it, dict))
    IN [k \in 1..Len(miss) |-> GapEntry(miss[k])]

\* an empty tier scoring 0
MatchScoreEmptyIsZero(match_count, count) ==
    IF count > 0 THEN Rat(match_count, count) ELSE Zero

\* lines 360, 364: match_count / count if count > 0 else 1.0
MatchScore(match_count, count) ==
    IF count > 0 THEN Rat(match_count, count) ELSE One

\* both tiers weighted alike
OverallMatchScoreEvenWeights(essential, preferred) ==
    RatAdd(RatMul(essential, Rat(1, 2)), RatMul(preferred, Rat(1, 2)))

\* line 367: (essential_match_score * 0.7) + (preferred_match_score * 0.3)
OverallMatchScore(essential, preferred) ==
    RatAdd(RatMul(essential, Rat(7, 10)), RatMul(preferred, Rat(3, 10)))

\* lines 379-384: the except branch
MatchErrorResult ==
    [keys |-> {"error", "overall_match_score"},
     essential_match_score |-> None,
     preferred_match_score |-> None,
     overall_match_score |-> Zero,
     essential_matches |-> <<>>,
     essential_gaps |-> <<>>,
     preferred_matches |-> <<>>,
     preferred_gaps |-> <<>>]

match_candidate_to_job(skills, job) ==
    IF ComprehensionRaises(skills)
    THEN MatchErrorResult
    ELSE LET dict == candidate_skill_dict(skills)
             essential == TierItems(job, "essential_skills")
             preferred == TierItems(job, "preferred_skills")
             essential_matches == TierMatches(essential, dict)
             preferred_matches == TierMatches(preferred, dict)
             essential_match_score == MatchScore(Len(essential_matches), Len(essential))
             preferred_match_score == MatchScore(Len(preferred_matches), Len(preferred))
         IN [keys |-> {"essential_match_score", "preferred_match_score",
                       "overall_match_score", "essential_matches", "essential_gaps",
                       "preferred_matches", "preferred_gaps"},
             essential_match_score |-> essential_match_score,
             preferred_match_score |-> preferred_match_score,
             overall_match_score |->
                 OverallMatchScore(essential_match_score, preferred_match_score),
             essential_matches |-> essential_matches,
             essential_gaps |-> TierGaps(essential, dict),
             preferred_matches |-> preferred_matches,
             preferred_gaps |-> TierGaps(preferred, dict)]

\* one call of match_candidate_to_job
MatchCandidateToJob ==
    /\ match_result = NoMatchResult
    /\ match_result' = match_candidate_to_job(candidate_skills, job_skills)
    /\ UNCHANGED <<candidate_skills, job_skills>>
    /\ UNCHANGED <<scoring_vars, exec_vars, run_vars, session_vars, calc_vars, web_vars>>

InitMatch ==
    /\ IdleWeb
    /\ IdleScoring
    /\ IdleExecute
    /\ language = "python"
    /\ IdleRun
    /\ IdleSession
    /\ IdleCalc
    /\ candidate_skills \in SeqsUpTo(CandidateEntries, MaxCandidateSkills)
    /\ job_skills \in JobSkillInputs
    /\ match_result = NoMatchResult
NextMatch == MatchCandidateToJob
SpecMatch == InitMatch /\ [][NextMatch]_vars

(***************************************************************************)
(* utils/scoring.py: the phase score calculators.  The values a caller can  *)
(* pass are records [kind, val, items, elems]: a number, a string, None, a  *)
(* dict (items) or a list (elems).                                          *)
(***************************************************************************)
CalcSteps == 5
CoarseSteps == 2
MaxResumeSkills == 2
MaxListLen == 2

NoItems == [k \in {} |-> None]
Num(r) == [kind |-> "num", val |-> r, items |-> NoItems, elems |-> <<>>]
\* a non-empty string that is no number and contains no key name
Str == [kind |-> "str", val |-> None, items |-> NoItems, elems |-> <<>>]
NoneVal == [kind |-> "none", val |-> None, items |-> NoItems, elems |-> <<>>]
Dict(f) == [kind |-> "dict", val |-> None, items |-> f, elems |-> <<>>]
List(q) == [kind |-> "list", val |-> None, items |-> NoItems, elems |-> q]
IntZero == Num(Zero)

\* all dicts over the keys K with values in V, any key possibly absent
DictsOver(K, V) == UNION {{Dict(f) : f \in [D -> V]} : D \in SUBSET K}

CalcGrid == {Rat(k, CalcSteps) : k \in 0..CalcSteps}
CoarseGrid == {Rat(k, CoarseSteps) : k \in 0..CoarseSteps}
\* what a component key can hold: a number, a string or None
\* numbers outside [0,1], which no calculator refuses
OutOfRange == {Rat(3, 2), Rat(-1, 2)}
ComponentValues == {Num(r) : r \in CalcGrid \cup OutOfRange} \cup {Str, NoneVal}
\* arguments that are no dict
NonDicts == {NoneVal, Str, Num(One)}

IsNum(v) == v.kind = "num"
\* objects that have a .get method
HasGet(v) == v.kind = "dict"
\* d.get(k, default)
Get(d, k, default) == IF k \in DOMAIN d.items THEN d.items[k] ELSE default
\* bool(v)
IsTruthy(v) ==
    CASE v.kind = "num" -> v.val # Zero
      [] v.kind = "str" -> TRUE
      [] v.kind = "none" -> FALSE
      [] v.kind = "dict" -> DOMAIN v.items # {}
      [] v.kind = "list" -> v.elems # <<>>
\* v > 0 on a number
Positive(v) == v.val.n > 0

\* a handler for TypeError alone
CalcCaughtTypeErrorOnly(exc) == exc = "TypeError"

\* except Exception as e (lines 54, 95, 147, 233, 285)
CalcCaught(exc) == TRUE

CalcRaised(exc) ==
    [outcome |-> "raised", error |-> exc, keys |-> {}, scores |-> NoItems]

CalcReturned(scores) ==
    [outcome |-> "returned", error |-> "none", keys |-> DOMAIN scores, scores |-> scores]

\* lines 55-56, 96-97, 148-149, 286-287: {"error": str(e), overall_key: 0}
CalcExcept(exc, overall_key) ==
    IF CalcCaught(exc)
    THEN [outcome |-> "returned", error |-> exc,
          keys |-> {"error", overall_key},
          scores |-> [k \in {overall_key} |-> IntZero]]
    ELSE CalcRaised(exc)

\* sum of score * weight over the keys of a weight table
RECURSIVE WeightedSum(_, _, _)
WeightedSum(score, weights, K) ==
    IF K = {} THEN Zero
    ELSE LET k == CHOOSE x \in K : TRUE
         IN RatAdd(RatMul(score[k].val, weights[k]), WeightedSum(score, weights, K \ {k}))

\* the shape the video, coding and managerial calculators share: .get each
\* component with default 0, weight and add them, echo the components
WeightedCalculator(got, weights, out_key, overall_key) ==
    IF \E k \in DOMAIN got : ~IsNum(got[k])
    THEN CalcExcept("TypeError", overall_key)
    ELSE CalcReturned([k \in {out_key[c] : c \in DOMAIN got} \cup {overall_key} |->
             IF k = overall_key
             THEN Num(WeightedSum(got, weights, DOMAIN got))
             ELSE got[CHOOSE c \in DOMAIN got : out_key[c] = k]])

\* "key" in v raises TypeError for an int argument
ContainsRaises(v) == v.kind = "num"

\* lines 23, 29, 40: analysis and key in analysis, once it has not raised
SourcePresent(analysis, key) ==
    /\ IsTruthy(analysis)
    /\ analysis.kind = "dict"
    /\ key \in DOMAIN analysis.items

\* lines 23-26, 40-43: the GitHub and the LinkedIn score
SourceScore(analysis, key) ==
    IF SourcePresent(analysis, key) THEN analysis.items[key] ELSE IntZero

\* line 30: the identified skills, once skill_analysis is known to be a dict
IdentifiedSkills(resume_analysis) ==
    Get(resume_analysis.items["skill_analysis"], "identified_skills", List(<<>>))

\* line 32: [skill.get("confidence", 0) for skill in skills]
ConfidenceScores(skills) ==
    [k \in 1..Len(skills.elems) |-> Get(skills.elems[k], "confidence", IntZero)]

RECURSIVE SumSeq(_)
SumSeq(q) == IF q = <<>> THEN Zero ELSE RatAdd(q[1].val, SumSeq(Tail(q)))

\* the exception lines 29-37 raise, "none" when they raise none
ResumeException(resume_analysis) ==
    IF ~IsTruthy(resume_analysis) THEN "none"
    ELSE IF ContainsRaises(resume_analysis) THEN "TypeError"
    ELSE IF ~SourcePresent(resume_analysis, "skill_analysis") THEN "none"
    ELSE IF ~HasGet(resume_analysis.items["skill_analysis"]) THEN "AttributeError"
    ELSE LET skills == IdentifiedSkills(resume_analysis)
         IN IF ~IsTruthy(skills) THEN "none"
            ELSE IF skills.kind = "num" THEN "TypeError"
            ELSE IF skills.kind # "list" THEN "AttributeError"
            ELSE IF \E k \in 1..Len(skills.elems) : ~HasGet(skills.elems[k])
                 THEN "AttributeError"
            ELSE IF \E k \in 1..Len(skills.elems) : ~IsNum(ConfidenceScores(skills)[k])
                 THEN "TypeError"
            ELSE "none"

\* lines 29-37, when they raise nothing
ResumeScore(resume_analysis) ==
    IF ~SourcePresent(resume_analysis, "skill_analysis") THEN IntZero
    ELSE LET skills == IdentifiedSkills(resume_analysis)
         IN IF ~IsTruthy(skills) THEN IntZero
            ELSE Num(RatDiv(SumSeq(ConfidenceScores(skills)), Rat(Len(skills.elems), 1)))

\* a mean over all three sources
ProfileMeanOfAll(sources) ==
    Num(RatDiv(WeightedSum(sources, [k \in DOMAIN sources |-> One], DOMAIN sources),
               Rat(Cardinality(DOMAIN sources), 1)))

\* lines 46-50: the mean of the scores that are > 0, or 0
ProfileMean(sources) ==
    LET available == {k \in DOMAIN sources : Positive(sources[k])}
    IN IF available # {}
       THEN Num(RatDiv(WeightedSum(sources, [k \in available |-> One], available),
                       Rat(Cardinality(available), 1)))
       ELSE IntZero

calculate_profile_score(github_analysis, resume_analysis, linkedin_analysis) ==
    IF IsTruthy(github_analysis) /\ ContainsRaises(github_analysis)
    THEN CalcExcept("TypeError", "overall_profile_score")
    ELSE IF ResumeException(resume_analysis) # "none"
    THEN CalcExcept(ResumeException(resume_analysis), "overall_profile_score")
    ELSE IF IsTruthy(linkedin_analysis) /\ ContainsRaises(linkedin_analysis)
    THEN CalcExcept("TypeError", "overall_profile_score")
    ELSE LET sources ==
                 [github_score |-> SourceScore(github_analysis, "overall_github_score"),
                  resume_score |-> ResumeScore(resume_analysis),
                  linkedin_score |-> SourceScore(linkedin_analysis, "skill_confidence")]
         IN IF \E k \in DOMAIN sources : ~IsNum(sources[k])
            THEN CalcExcept("TypeError", "overall_profile_score")
            ELSE CalcReturned(
                     [k \in DOMAIN sources \cup {"overall_profile_score"} |->
                         IF k = "overall_profile_score"
                         THEN ProfileMean(sources)
                         ELSE sources[k]])

\* lines 75-79
VideoWeights ==
    [technical_knowledge_score |-> Rat(1, 2),
     communication_score |-> Rat(3, 10),
     logical_reasoning_score |-> Rat(1, 5)]

\* lines 88-93: the result key of each input key
VideoOutKey ==
    [technical_knowledge_score |-> "technical_score",
     communication_score |-> "communication_score",
     logical_reasoning_score |-> "reasoning_score"]

calculate_video_interview_score(video_analysis) ==
    IF ~HasGet(video_analysis)
    THEN CalcExcept("AttributeError", "overall_video_score")
    ELSE WeightedCalculator([k \in DOMAIN VideoWeights |-> Get(video_analysis, k, IntZero)],
                            VideoWeights, VideoOutKey, "overall_video_score")

\* lines 121-127; success_rate is read from test_results
CodingWeights ==
    [correctness_score |-> Rat(2, 5),
     success_rate |-> Rat(3, 10),
     time_complexity_score |-> Rat(1, 10),
     space_complexity_score |-> Rat(1, 10),
     code_style_score |-> Rat(1, 10)]

\* lines 138-145
CodingOutKey ==
    [correctness_score |-> "correctness_score",
     success_rate |-> "test_success_rate",
     time_complexity_score |-> "time_complexity_score",
     space_complexity_score |-> "space_complexity_score",
     code_style_score |-> "code_style_score"]

CodeAnalysisKeys ==
    {"correctness_score", "time_complexity_score", "space_complexity_score",
     "code_style_score"}

\* a missing component read as None
CodingGetNoDefault(analysis, k) == Get(analysis, k, NoneVal)

\* lines 112-118: .get(key, 0)
CodingGet(analysis, k) == Get(analysis, k, IntZero)

calculate_coding_challenge_score(code_analysis, test_results) ==
    IF ~HasGet(code_analysis) \/ ~HasGet(test_results)
    THEN CalcExcept("AttributeError", "overall_coding_score")
    ELSE WeightedCalculator(
             [k \in DOMAIN CodingWeights |->
                 IF k = "success_rate"
                 THEN CodingGet(test_results, k)
                 ELSE CodingGet(code_analysis, k)],
             CodingWeights, CodingOutKey, "overall_coding_score")

\* lines 262-267
ManagerialWeights ==
    [leadership_score |-> Rat(3, 10),
     behavior_score |-> Rat(1, 5),
     cultural_fit_score |-> Rat(3, 10),
     decision_making_score |-> Rat(1, 5)]

\* lines 277-283: the components are returned under their input keys
ManagerialOutKey == [k \in DOMAIN ManagerialWeights |-> k]

calculate_managerial_round_score(managerial_analysis) ==
    IF ~HasGet(managerial_analysis)
    THEN CalcExcept("AttributeError", "overall_managerial_score")
    ELSE WeightedCalculator(
             [k \in DOMAIN ManagerialWeights |-> Get(managerial_analysis, k, IntZero)],
             ManagerialWeights, ManagerialOutKey, "overall_managerial_score")

\* lines 203-208: SCORING_CONFIG has no "cultural_fit_weights", so the default
\* table applies; it is keyed here by the score each weight multiplies
CulturalFitWeights ==
    [value_alignment_score |-> Rat(2, 5),
     communication_style_score |-> Rat(1, 5),
     team_collaboration_score |-> Rat(3, 10),
     adaptability_score |-> Rat(1, 10)]

\* lines 163-169 and 235-241
CulturalFitZeros ==
    [k \in DOMAIN CulturalFitWeights \cup {"overall_cultural_fit_score"} |-> IntZero]

\* lines 233-242: the except branch returns the zeroed components too
CulturalFitExcept(exc) ==
    IF CalcCaught(exc)
    THEN [outcome |-> "returned", error |-> exc,
          keys |-> DOMAIN CulturalFitZeros \cup {"error"},
          scores |-> CulturalFitZeros]
    ELSE CalcRaised(exc)

\* the test of lines 177, 180, 183, 187
IsDictUnder(analysis, key) ==
    key \in DOMAIN analysis.items /\ analysis.items[key].kind = "dict"

\* lines 177-184
ComponentScore(analysis, key) ==
    IF IsDictUnder(analysis, key) THEN Get(analysis.items[key], "score", IntZero) ELSE IntZero

\* lines 189-190
Strengths(analysis) == Get(analysis.items["communication_style"], "strengths", List(<<>>))
AreasForImprovement(analysis) ==
    Get(analysis.items["communication_style"], "areas_for_improvement", List(<<>>))

\* len(v) raises TypeError for None and for a number
HasLen(v) == v.kind \in {"list", "dict", "str"}

\* lines 192-194: some len() of lines 192-193 raises
CommunicationStyleRaises(analysis) ==
    /\ IsDictUnder(analysis, "communication_style")
    /\ ~HasLen(Strengths(analysis)) \/ ~HasLen(AreasForImprovement(analysis))

\* lines 187-194, when they raise nothing
CommunicationStyleScore(analysis) ==
    IF ~IsDictUnder(analysis, "communication_style") THEN IntZero
    ELSE LET strengths == Len(Strengths(analysis).elems)
             areas == Len(AreasForImprovement(analysis).elems)
         IN IF strengths > 0 \/ areas > 0
            THEN Num(Rat(strengths, strengths + areas))
            ELSE IntZero

\* an overall score dividing by the sum of all four weights
CulturalFitOverallNoRenormalisation(components) ==
    LET used == {k \in DOMAIN components : Positive(components[k])}
    IN Num(RatDiv(WeightedSum(components, CulturalFitWeights, used),
                  WeightedSum([k \in DOMAIN components |-> Num(One)], CulturalFitWeights,
                              DOMAIN components)))

\* lines 210-229: the weighted sum of the positive components over the sum of
\* their weights
CulturalFitOverall(components) ==
    LET used == {k \in DOMAIN components : Positive(components[k])}
    IN Num(RatDiv(WeightedSum(components, CulturalFitWeights, used),
                  WeightedSum([k \in used |-> Num(One)], CulturalFitWeights, used)))

calculate_cultural_fit_score(cultural_fit_analysis) ==
    IF cultural_fit_analysis.kind # "dict"
    THEN CalcReturned(CulturalFitZeros)
    ELSE IF CommunicationStyleRaises(cultural_fit_analysis)
    THEN CulturalFitExcept("TypeError")
    ELSE LET provided == Get(cultural_fit_analysis, "cultural_fit_score", IntZero)
             components ==
                 [value_alignment_score |->
                      ComponentScore(cultural_fit_analysis, "value_alignment"),
                  communication_style_score |->
                      CommunicationStyleScore(cultural_fit_analysis),
                  team_collaboration_score |->
                      ComponentScore(cultural_fit_analysis, "team_collaboration"),
                  adaptability_score |->
                      ComponentScore(cultural_fit_analysis, "adaptability")]
             scores(overall) ==
                 [k \in DOMAIN CulturalFitZeros |->
                     IF k = "overall_cultural_fit_score" THEN overall ELSE components[k]]
         IN IF ~(IsNum(provided) /\ provided.val = Zero)
            THEN CalcReturned(scores(provided))
            ELSE IF \E k \in DOMAIN components : ~IsNum(components[k])
            THEN CulturalFitExcept("TypeError")
            ELSE IF \E k \in DOMAIN components : Positive(components[k])
            THEN CalcReturned(scores(CulturalFitOverall(components)))
            ELSE CalcReturned(scores(provided))

\* ---- the arguments the calculators are called with
GithubInputs == NonDicts \cup DictsOver({"overall_github_score"}, ComponentValues)
LinkedinInputs == NonDicts \cup DictsOver({"skill_confidence"}, ComponentValues)
SkillInputs ==
    {Str} \cup DictsOver({"confidence"}, {Num(r) : r \in CoarseGrid} \cup {Str})
ResumeInputs ==
    NonDicts
    \cup DictsOver({"skill_analysis"}, {NoneVal, Dict(NoItems)})
    \cup {Dict([k \in {"skill_analysis"} |-> Dict([j \in {"identified_skills"} |-> v])]) :
            v \in {NoneVal} \cup {List(q) : q \in SeqsUpTo(SkillInputs, MaxResumeSkills)}}
VideoInputs == NonDicts \cup DictsOver(DOMAIN VideoWeights, ComponentValues)
CodeAnalysisInputs ==
    NonDicts \cup DictsOver(CodeAnalysisKeys, {Num(r) : r \in CoarseGrid} \cup {Str})
TestResultsInputs == NonDicts \cup DictsOver({"success_rate"}, ComponentValues)
ManagerialInputs ==
    NonDicts \cup DictsOver(DOMAIN ManagerialWeights, {Num(r) : r \in CoarseGrid} \cup {Str})

\* a key left out of a dict
Absent == [kind |-> "absent", val |-> None, items |-> NoItems, elems |-> <<>>]
MakeDict(choice) ==
    Dict([k \in {x \in DOMAIN choice : choice[x] # Absent} |-> choice[k]])
ListOfLen(n) == List([k \in 1..n |-> Str])
CulturalComponentInputs ==
    {Absent, Str} \cup DictsOver({"score"}, {Num(r) : r \in CoarseGrid} \cup {Str})
SizedInputs == {Absent, NoneVal} \cup {ListOfLen(n) : n \in 0..MaxListLen}
CommunicationStyleInputs ==
    {Absent, Str}
    \cup {MakeDict([strengths |-> st, areas_for_improvement |-> ar]) :
            st \in SizedInputs, ar \in SizedInputs}
CulturalFitInputs ==
    NonDicts
    \cup {MakeDict([cultural_fit_score |-> c, value_alignment |-> v,
                     communication_style |-> cs, team_collaboration |-> t,
                     adaptability |-> a]) :
            c \in {Absent, Str} \cup {Num(r) : r \in CoarseGrid},
            v \in CulturalComponentInputs,
            cs \in CommunicationStyleInputs,
            t \in CulturalComponentInputs,
            a \in CulturalComponentInputs}

\* ---- one call of a calculator
CalcProfile ==
    /\ calc_call = NoCalcCall
    /\ \E g \in GithubInputs, r \in ResumeInputs, l \in LinkedinInputs :
        /\ calc_call' = [name |-> "profile", args |-> <<g, r, l>>]
        /\ calc_result' = calculate_profile_score(g, r, l)
    /\ UNCHANGED <<scoring_vars, exec_vars, run_vars, session_vars, match_vars, web_vars>>

CalcVideo ==
    /\ calc_call = NoCalcCall
    /\ \E v \in VideoInputs :
        /\ calc_call' = [name |-> "video", args |-> <<v>>]
        /\ calc_result' = calculate_video_interview_score(v)
    /\ UNCHANGED <<scoring_vars, exec_vars, run_vars, session_vars, match_vars, web_vars>>

CalcCoding ==
    /\ calc_call = NoCalcCall
    /\ \E c \in CodeAnalysisInputs, t \in TestResultsInputs :
        /\ calc_call' = [name |-> "coding", args |-> <<c, t>>]
        /\ calc_result' = calculate_coding_challenge_score(c, t)
    /\ UNCHANGED <<scoring_vars, exec_vars, run_vars, session_vars, match_vars, web_vars>>

CalcCulturalFit ==
    /\ calc_call = NoCalcCall
    /\ \E a \in CulturalFitInputs :
        /\ calc_call' = [name |-> "cultural_fit", args |-> <<a>>]
        /\ calc_result' = calculate_cultural_fit_score(a)
    /\ UNCHANGED <<scoring_vars, exec_vars, run_vars, session_vars, match_vars, web_vars>>

CalcManagerial ==
    /\ calc_call = NoCalcCall
    /\ \E m \in ManagerialInputs :
        /\ calc_call' = [name |-> "managerial", args |-> <<m>>]
        /\ calc_result' = calculate_managerial_round_score(m)
    /\ UNCHANGED <<scoring_vars, exec_vars, run_vars, session_vars, match_vars, web_vars>>

\* one call of calculate_final_candidate_score under the shipped weights with
\* any numbers as phase scores, as evaluate_candidate makes it
\* (routes/assessment_routes.py lines 132-137: float(...) of each field)
CalcFinal ==
    /\ calc_call = NoCalcCall
    /\ final_result = NoResult
    /\ \E p \in ScoreGrid \cup OutOfRange,
          v \in ScoreGrid \cup OutOfRange,
          c \in ScoreGrid \cup OutOfRange,
          m \in ScoreGrid \cup OutOfRange \cup {None} :
        /\ final_args' = [profile_score |-> p, video_score |-> v,
                          coding_score |-> c, managerial_score |-> m]
        /\ final_result' = calculate_final_candidate_score(SCORING_CONFIG, p, v, c, m)
    /\ calc_call' = [name |-> "final", args |-> <<>>]
    /\ UNCHANGED <<SCORING_CONFIG, calc_result, exec_vars, run_vars, session_vars, match_vars, web_vars>>

InitCalc ==
    /\ IdleWeb
    /\ IdleScoring
    /\ IdleExecute
    /\ language = "python"
    /\ IdleRun
    /\ IdleSession
    /\ IdleMatch
    /\ IdleCalc
NextCalc ==
    \/ CalcProfile
    \/ CalcVideo
    \/ CalcCoding
    \/ CalcCulturalFit
    \/ CalcManagerial
    \/ CalcFinal
SpecCalc == InitCalc /\ [][NextCalc]_vars

(***************************************************************************)
(* Properties of calculate_final_candidate_score (under SpecFinal).        *)
(***************************************************************************)
FinalCalled == final_result # NoResult

\* a grid score and a configured weight as whole numbers of their units
ScoreUnits(x) == x.n * (ScoreSteps \div x.d)
WeightTenths(w) == w.n * (WeightUnit \div w.d)

ProfileTenths == WeightTenths(SCORING_CONFIG.profile_weight)
VideoTenths == WeightTenths(SCORING_CONFIG.video_interview_weight)
CodingTenths == WeightTenths(SCORING_CONFIG.coding_challenge_weight)
ManagerialTenths == WeightTenths(SCORING_CONFIG.managerial_round_weight)

\* profile*w_profile + video*w_video + coding*w_coding, in units of
\* 1/(ScoreSteps * WeightUnit)
ThreePhaseUnits ==
    ScoreUnits(final_args.profile_score) * ProfileTenths
    + ScoreUnits(final_args.video_score) * VideoTenths
    + ScoreUnits(final_args.coding_score) * CodingTenths

InUnitInterval(x) == x.d > 0 /\ 0 <= x.n /\ x.n <= x.d

\* C1: for every weight configuration summing to 1.0 and all four phase scores
\* in [0,1], the call returns overall_candidate_score equal to the weighted sum
\* profile*w_profile + video*w_video + coding*w_coding + managerial*w_managerial,
\* and that value lies in [0,1].
C1_FourPhaseWeightedSum ==
    (FinalCalled /\ final_args.managerial_score # None) =>
        LET overall == final_result.overall_candidate_score
            units == ThreePhaseUnits
                     + ScoreUnits(final_args.managerial_score) * ManagerialTenths
        IN /\ "overall_candidate_score" \in final_result.keys
           /\ "error" \notin final_result.keys
           /\ overall.n * (ScoreSteps * WeightUnit) = units * overall.d
           /\ InUnitInterval(overall)

\* a four-phase call under a configuration other than the default one, whose
\* result is strictly inside (0,1)
C1_Witness ==
    /\ FinalCalled
    /\ final_args.managerial_score \notin {None, Zero}
    /\ SCORING_CONFIG # DefaultScoringConfig
    /\ SCORING_CONFIG.managerial_round_weight # Zero
    /\ final_result.overall_candidate_score \notin {Zero, One}

\* C2: with managerial_score absent each of the three remaining weights is
\* divided by (1 - managerial_weight), the adjusted weights sum to 1.0, the
\* overall score is the sum of score * adjusted weight, profile = video =
\* coding = 1 gives 1, and in-range inputs give a score in [0,1].
C2_Renormalised ==
    (FinalCalled /\ final_args.managerial_score = None) =>
        /\ InUnitInterval(final_result.overall_candidate_score)
        /\ ManagerialTenths # WeightUnit =>
            LET adjusted == AdjustedWeights(Weights(SCORING_CONFIG))
                rest == WeightUnit - ManagerialTenths
                overall == final_result.overall_candidate_score
            IN /\ adjusted.profile.n * rest = ProfileTenths * adjusted.profile.d
               /\ adjusted.video.n * rest = VideoTenths * adjusted.video.d
               /\ adjusted.coding.n * rest = CodingTenths * adjusted.coding.d
               /\ RatAdd(RatAdd(adjusted.profile, adjusted.video), adjusted.coding) = One
               /\ "error" \notin final_result.keys
               /\ overall.n * (ScoreSteps * rest) = ThreePhaseUnits * overall.d
               /\ (/\ final_args.profile_score = One
                   /\ final_args.video_score = One
                   /\ final_args.coding_score = One) => overall = One

\* the three-phase call with all scores 1 under the default configuration
C2_Witness ==
    /\ FinalCalled
    /\ SCORING_CONFIG = DefaultScoringConfig
    /\ final_args = [profile_score |-> One, video_score |-> One,
                     coding_score |-> One, managerial_score |-> None]
    /\ final_result.overall_candidate_score = One

\* the overall score of the call (p, v, c, m) under the current configuration
FinalOf(p, v, c, m) ==
    calculate_final_candidate_score(SCORING_CONFIG, p, v, c, m).overall_candidate_score

\* C3: for any profile/video/coding triple the overall score with
\* managerial_score=None equals the overall score with managerial_score=0
\* multiplied by 1/(1 - managerial_weight).
C3_NoneIsZeroScaled ==
    (FinalCalled /\ ManagerialTenths # WeightUnit
        /\ final_args.managerial_score \in {None, Zero}) =>
        LET p == final_args.profile_score
            v == final_args.video_score
            c == final_args.coding_score
            scale == RatDiv(One, RatSub(One, SCORING_CONFIG.managerial_round_weight))
        IN FinalOf(p, v, c, None) = RatMul(FinalOf(p, v, c, Zero), scale)

\* a three-phase call under the default configuration where the scaling shows:
\* scoring the phase 0 would have given a different overall score
C3_Witness ==
    /\ FinalCalled
    /\ SCORING_CONFIG = DefaultScoringConfig
    /\ final_args.managerial_score = None
    /\ final_result.overall_candidate_score
         # FinalOf(final_args.profile_score, final_args.video_score,
                   final_args.coding_score, Zero)

\* C4: the overall score is mapped to exactly one label by lower-edge-inclusive
\* thresholds: >= 0.85 Excellent, [0.75, 0.85) Strong, [0.65, 0.75) Good,
\* [0.50, 0.65) Average, below 0.50 Below Average.
C4_AssessmentBands ==
    (FinalCalled /\ "error" \notin final_result.keys) =>
        LET overall == final_result.overall_candidate_score
            percent_ge(t) == overall.n * 100 >= t * overall.d
            label == final_result.assessment
        IN /\ "assessment" \in final_result.keys
           /\ label = "Excellent Candidate" <=> percent_ge(85)
           /\ label = "Strong Candidate" <=> (percent_ge(75) /\ ~percent_ge(85))
           /\ label = "Good Candidate" <=> (percent_ge(65) /\ ~percent_ge(75))
           /\ label = "Average Candidate" <=> (percent_ge(50) /\ ~percent_ge(65))
           /\ label = "Below Average Candidate" <=> ~percent_ge(50)

\* an overall score of exactly 0.85 labelled Excellent
C4_Witness ==
    /\ FinalCalled
    /\ final_result.overall_candidate_score = Rat(85, 100)
    /\ final_result.assessment = "Excellent Candidate"

\* the other band edges, 0.75, 0.65 and 0.50, and a score just below 0.50
C4_EdgeStrong ==
    FinalCalled /\ final_result.overall_candidate_score = Rat(75, 100)
        /\ final_result.assessment = "Strong Candidate"
C4_EdgeGood ==
    FinalCalled /\ final_result.overall_candidate_score = Rat(65, 100)
        /\ final_result.assessment = "Good Candidate"
C4_EdgeAverage ==
    FinalCalled /\ final_result.overall_candidate_score = Rat(50, 100)
        /\ final_result.assessment = "Average Candidate"
C4_BelowAverage ==
    FinalCalled /\ final_result.overall_candidate_score = Rat(19, 40)
        /\ final_result.assessment = "Below Average Candidate"

(***************************************************************************)
(* Properties of execute_code (under SpecExecute and FairSpecExecute).     *)
(***************************************************************************)
Returned == pc = "done"
PendingReply(reply) == reply.kind = "json" /\ reply.status_id \in {1, 2}
TerminalReply(reply) == reply.kind = "json" /\ reply.status_id \notin {1, 2}
FailureReply(reply) == reply.kind \in {"HTTPError", "ConnectionError", "ValueError", "no_token"}

\* C5: a judge that answers queued/processing to the first 9 polls and a
\* terminal status to the 10th yields status success; a judge that answers
\* queued/processing to all 10 polls yields status error with the timeout
\* message, and no other outcome (a transport error in particular) carries
\* that message.
C5_TenthPollDecides ==
    /\ (polls = 10 /\ pending_replies = 9 /\ TerminalReply(last_reply)) =>
            Returned /\ exec_result.status = "success"
    /\ (polls = 10 /\ pending_replies = 10) =>
            /\ Returned
            /\ exec_result.status = "error"
            /\ exec_result.message = <<"Timeout waiting for execution results">>
    /\ (Returned /\ exec_result.message = <<"Timeout waiting for execution results">>) =>
            polls = 10 /\ pending_replies = 10
    /\ (Returned /\ FailureReply(last_reply)) =>
            exec_result.message # <<"Timeout waiting for execution results">>

\* nine queued/processing answers, then a terminal one, and the call succeeded
C5_Witness ==
    /\ Returned
    /\ polls = 10
    /\ pending_replies = 9
    /\ TerminalReply(last_reply)
    /\ exec_result.status = "success"

\* ten queued/processing answers, and the call returned the timeout error
C5_TimeoutReached ==
    /\ Returned
    /\ polls = 10
    /\ pending_replies = 10
    /\ exec_result = ErrorResult(TimeoutMessage)

\* C6: every execute_code call terminates whatever the judge answers; it
\* creates at most one submission, issues at most 10 polls, polls again only
\* after a queued/processing answer and returns on the first other answer
\* without a further poll.
C6_BoundedPolling ==
    /\ [](Len(posts) <= 1 /\ polls <= 10)
    /\ []((polls > 0 /\ ~PendingReply(last_reply)) => Returned)
    /\ [][polls' # polls =>
            /\ polls' = polls + 1
            /\ Len(posts) = 1
            /\ polls > 0 => PendingReply(last_reply)]_vars
    /\ [][Returned => (Returned' /\ polls' = polls /\ posts' = posts)]_vars
    /\ <>Returned

\* the longest call: one submission, ten polls, returned
C6_Witness ==
    /\ Returned
    /\ Len(posts) = 1
    /\ polls = 10
    /\ PendingReply(last_reply)

\* C7: with a language that is not in the supported-language table the call
\* fails with the unsupported-language error before any network call: no
\* submission is created and no poll is issued.
C7_UnsupportedLanguage ==
    (language \notin {"python", "Python"}) =>
        /\ posts = <<>>
        /\ polls = 0
        /\ pc \in {"start", "done"}
        /\ Returned =>
            /\ exec_result.status = "error"
            /\ exec_result.message = <<"Unsupported language: ", language>>

\* the call with language "cobol" has returned its error
C7_Witness ==
    /\ Returned
    /\ language = "cobol"
    /\ exec_result.status = "error"
    /\ posts = <<>>

\* C8: a transport failure at any step (creating the submission or any poll,
\* a non-2xx response, a response without a token, an undecodable body) is
\* never raised to the caller: the call returns status error and a message.
C8_FailuresAreReturned ==
    /\ exec_result.status \in {"none", "success", "error"}
    /\ FailureReply(last_reply) =>
            /\ Returned
            /\ exec_result.status = "error"
            /\ exec_result.message # <<>>

\* a non-2xx answer to a later poll, returned as an error result
C8_Witness ==
    /\ Returned
    /\ polls > 1
    /\ last_reply.kind = "HTTPError"
    /\ exec_result.status = "error"
    /\ exec_result.message = <<"Request error: ", "HTTPError">>

\* a failure when creating the submission, returned as an error result
C8_PostFailureReached ==
    /\ Returned
    /\ polls = 0
    /\ last_reply.kind = "ConnectionError"
    /\ exec_result.status = "error"

(***************************************************************************)
(* Properties of run_test_cases (under SpecRun).                           *)
(***************************************************************************)
RunReturned == run_pc = "done"

\* C9: the test cases are executed one at a time in input order; there is
\* exactly one result per test case, in the same order; the result at 0-based
\* position k-1 has test_case_id = k and comes from the execute_code call that
\* was given that case's input.
C9_OrderedResults ==
    /\ Len(results) = i
    /\ Len(exec_calls) = (IF pc = "idle" THEN i ELSE i + 1)
    /\ Len(exec_calls) <= Len(test_cases)
    /\ \A k \in 1..Len(exec_calls) : exec_calls[k] = test_cases[k].input
    /\ pc # "idle" => stdin = test_cases[i + 1].input
    /\ \A k \in 1..Len(results) :
        /\ results[k].test_case_id = k
        /\ results[k].input = test_cases[k].input
    /\ RunReturned =>
        /\ run_result.results = results
        /\ Len(run_result.results) = Len(test_cases)
        /\ Len(exec_calls) = Len(test_cases)

\* a finished run over two test cases with different inputs
C9_Witness ==
    /\ RunReturned
    /\ Len(test_cases) = 2
    /\ test_cases[1].input # test_cases[2].input
    /\ run_result.results[2].test_case_id = 2
    /\ run_result.results[2].input = test_cases[2].input

\* text without its leading and trailing whitespace, said without recursion
Trimmed(s) ==
    LET keep == {k \in 1..Len(s) : s[k] \notin {" ", "\n", "\t"}}
    IN IF keep = {} THEN <<>>
       ELSE SubSeq(s, CHOOSE lo \in keep : \A k \in keep : lo <= k,
                      CHOOSE hi \in keep : \A k \in keep : k <= hi)

\* C10: a test case whose execution did not return an execution error is
\* marked passed if and only if the judge's stdout, stripped, equals the
\* expected output, stripped.
C10_PassedIffStrippedEqual ==
    [][(Len(results') = Len(results) + 1 /\ exec_result.status # "error") =>
        LET appended == results'[Len(results')]
            judged == IF last_reply.stdout = <<"null">> THEN <<>>
                      ELSE b64decode(last_reply.stdout)
        IN appended.passed <=>
            (Trimmed(judged) = Trimmed(test_cases[i + 1].expected_output))]_vars

\* a case expecting "a\n" was passed by a judge whose stdout is never "a\n"
C10_Witness ==
    /\ Len(results) >= 1
    /\ test_cases[1].expected_output = <<"a", "\n">>
    /\ results[1].passed
    /\ results[1].actual_output = <<"a">>

\* a case whose execution succeeded and whose output differs is not passed
C10_FailedReached ==
    /\ Len(results) >= 1
    /\ results[1].error_message = <<>>
    /\ ~results[1].passed

\* C11: a test case whose execution returns status error is recorded as
\* passed = false with the executor's message attached; it is not retried
\* (one execute_code call per test case) and the remaining cases still run.
C11_ErrorsAreRecorded ==
    /\ [][(Len(results') = Len(results) + 1 /\ exec_result.status = "error") =>
            LET appended == results'[Len(results')]
            IN /\ ~appended.passed
               /\ appended.error_message = exec_result.message
               /\ appended.error_message # <<>>
               /\ appended.actual_output = <<"Execution error">>
               /\ i' = i + 1
               /\ exec_calls' = exec_calls]_vars
    /\ [][Len(exec_calls') # Len(exec_calls) =>
            /\ Len(exec_calls') = Len(exec_calls) + 1
            /\ Len(exec_calls) = Len(results)]_vars
    /\ [](RunReturned =>
            /\ Len(exec_calls) = Len(test_cases)
            /\ Len(run_result.results) = Len(test_cases))

\* the first case ended in the poll timeout, the second case was still run
\* and passed
C11_Witness ==
    /\ RunReturned
    /\ Len(run_result.results) = 2
    /\ ~run_result.results[1].passed
    /\ run_result.results[1].error_message = <<"Timeout waiting for execution results">>
    /\ run_result.results[2].passed

\* the other two kinds of execution error, recorded the same way
C11_UnsupportedReached ==
    /\ RunReturned
    /\ Len(run_result.results) = 2
    /\ \A k \in 1..2 : run_result.results[k].error_message = <<"Unsupported language: ", "cobol">>
C11_TransportReached ==
    /\ Len(results) = 1
    /\ ~results[1].passed
    /\ results[1].error_message = <<"Request error: ", "ConnectionError">>

RECURSIVE CountPassed(_)
CountPassed(res) ==
    IF res = <<>> THEN 0
    ELSE (IF Head(res).passed THEN 1 ELSE 0) + CountPassed(Tail(res))

\* C12: passed_test_cases is the number of results with passed = true,
\* total_test_cases the number of input cases, 0 <= passed <= total, and
\* success_rate = passed / total, which is 0 when there are no test cases.
C12_Aggregate ==
    RunReturned =>
        LET rate == run_result.success_rate
        IN /\ run_result.passed_test_cases = CountPassed(run_result.results)
           /\ run_result.total_test_cases = Len(test_cases)
           /\ 0 <= run_result.passed_test_cases
           /\ run_result.passed_test_cases <= run_result.total_test_cases
           /\ rate.d > 0
           /\ rate.n * run_result.total_test_cases = run_result.passed_test_cases * rate.d
           /\ Len(test_cases) = 0 => rate = Zero

\* one of two cases passed: success_rate is 1/2
C12_Witness ==
    /\ RunReturned
    /\ run_result.total_test_cases = 2
    /\ run_result.passed_test_cases = 1
    /\ run_result.success_rate = Rat(1, 2)

\* no test cases: success_rate is 0
C12_EmptyReached ==
    /\ RunReturned
    /\ test_cases = <<>>
    /\ run_result.success_rate = Zero

\* C13: with a deterministic judge, invoking run_test_cases twice with
\* identical source code, language and test cases yields the same
\* success_rate and the same per-case passed values.
C13_Idempotent ==
    (invocation = 2 /\ RunReturned) =>
        /\ run_result.success_rate = first_run_result.success_rate
        /\ Len(run_result.results) = Len(first_run_result.results)
        /\ \A k \in 1..Len(first_run_result.results) :
            /\ k <= Len(run_result.results)
            /\ run_result.results[k].passed = first_run_result.results[k].passed

\* both invocations returned, each with one case passed and one failed
C13_Witness ==
    /\ invocation = 2
    /\ RunReturned
    /\ first_run_result.success_rate = Rat(1, 2)
    /\ run_result.success_rate = Rat(1, 2)
    /\ run_result.results[1].passed
    /\ ~run_result.results[2].passed

(***************************************************************************)
(* Properties of match_candidate_to_job (under SpecMatch).                 *)
(***************************************************************************)
MatchReturned == match_result # NoMatchResult /\ "error" \notin match_result.keys

\* the required skills of a tier, as passed in
Required(tier) == IF tier \in job_skills.keys THEN job_skills[tier] ELSE <<>>

\* the candidate has a skill of this name, names compared case-folded
CandidateHas(name) ==
    \E k \in 1..Len(candidate_skills) : Lower(candidate_skills[k].skill) = Lower(name)

HeldCount(tier) ==
    Cardinality({k \in 1..Len(Required(tier)) : CandidateHas(Required(tier)[k].skill)})

ExpectedTierScore(tier) ==
    IF Len(Required(tier)) = 0 THEN One ELSE Rat(HeldCount(tier), Len(Required(tier)))

SkillNames(entries) == [k \in 1..Len(entries) |-> entries[k].skill]

\* C14: each tier's match score is the number of the tier's required skills
\* the candidate has (names case-folded) divided by the number of required
\* skills of the tier, and 1.0 for a tier with no required skills.
C14_TierScores ==
    MatchReturned =>
        /\ match_result.essential_match_score = ExpectedTierScore("essential_skills")
        /\ match_result.preferred_match_score = ExpectedTierScore("preferred_skills")

\* an empty essential tier scoring 1 beside a half-matched preferred tier
C14_Witness ==
    /\ MatchReturned
    /\ Required("essential_skills") = <<>>
    /\ match_result.essential_match_score = One
    /\ Len(Required("preferred_skills")) = 2
    /\ match_result.preferred_match_score = Rat(1, 2)

C14_AbsentTierReached ==
    /\ MatchReturned
    /\ "preferred_skills" \notin job_skills.keys
    /\ match_result.preferred_match_score = One
    /\ match_result.essential_match_score = Zero

\* the example of the specification: essential [A, B], preferred [C], the
\* candidate holding A only
ExampleInput ==
    /\ SkillNames(Required("essential_skills")) = <<"Python", "sql">>
    /\ SkillNames(Required("preferred_skills")) = <<"Go">>
    /\ SkillNames(candidate_skills) = <<"python">>

\* C15: overall_match_score = 0.7 * essential_match_score + 0.3 *
\* preferred_match_score; essential [A, B], preferred [C] and a candidate
\* holding only A give 0.5, 0.0 and 0.35.
C15_OverallMatchScore ==
    MatchReturned =>
        /\ match_result.overall_match_score =
               RatAdd(RatMul(Rat(7, 10), match_result.essential_match_score),
                      RatMul(Rat(3, 10), match_result.preferred_match_score))
        /\ ExampleInput =>
               /\ match_result.essential_match_score = Rat(1, 2)
               /\ match_result.preferred_match_score = Zero
               /\ match_result.overall_match_score = Rat(7, 20)

C15_Witness ==
    /\ MatchReturned
    /\ ExampleInput
    /\ match_result.overall_match_score = Rat(7, 20)

\* the confidences the candidate lists under a name, compared case-folded
ListedConfidences(name) ==
    {candidate_skills[k].confidence :
        k \in {j \in 1..Len(candidate_skills) :
                 Lower(candidate_skills[j].skill) = Lower(name)}}

TierClassified(required, matches, gaps) ==
    /\ Len(matches) + Len(gaps) = Len(required)
    /\ SkillNames(matches) =
           SkillNames(SelectSeq(required, LAMBDA it : CandidateHas(it.skill)))
    /\ SkillNames(gaps) =
           SkillNames(SelectSeq(required, LAMBDA it : ~CandidateHas(it.skill)))
    /\ \A k \in 1..Len(matches) :
        /\ "confidence" \in matches[k].keys
        /\ matches[k].confidence \in ListedConfidences(matches[k].skill)
    /\ \A k \in 1..Len(gaps) : "confidence" \notin gaps[k].keys

\* C16: every required skill of a tier is classified exactly once, as a
\* match or as a gap, in requirement order; it is a match iff the candidate
\* has its case-folded name; a match carries the candidate's confidence and
\* a gap carries none.
C16_Classified ==
    MatchReturned =>
        /\ TierClassified(Required("essential_skills"),
                          match_result.essential_matches, match_result.essential_gaps)
        /\ TierClassified(Required("preferred_skills"),
                          match_result.preferred_matches, match_result.preferred_gaps)

\* a tier of two requirements, one matched under a name of another case and
\* one missing
C16_Witness ==
    /\ MatchReturned
    /\ SkillNames(Required("essential_skills")) = <<"Go", "Python">>
    /\ SkillNames(candidate_skills) = <<"python">>
    /\ SkillNames(match_result.essential_matches) = <<"Python">>
    /\ SkillNames(match_result.essential_gaps) = <<"Go">>
    /\ match_result.essential_matches[1].confidence = Rat(1, 2)

\* the last entry of the candidate sequence under a name, compared case-folded
LastEntry(name) ==
    LET same == {k \in 1..Len(candidate_skills) :
                   Lower(candidate_skills[k].skill) = Lower(name)}
    IN candidate_skills[CHOOSE k \in same : \A j \in same : j <= k]

LastWins(matches) ==
    \A k \in 1..Len(matches) :
        matches[k].confidence = LastEntry(matches[k].skill).confidence

\* C17: candidate skills are indexed by case-folded name and the last entry
\* wins: the confidence reported for a matched required skill is that of the
\* last candidate entry whose name equals it up to case.
C17_LastEntryWins ==
    MatchReturned =>
        /\ LastWins(match_result.essential_matches)
        /\ LastWins(match_result.preferred_matches)

\* two entries differing in case only, the later confidence reported
C17_Witness ==
    /\ MatchReturned
    /\ SkillNames(candidate_skills) = <<"Python", "python">>
    /\ Len(match_result.essential_matches) = 1
    /\ match_result.essential_matches[1].skill = "Python"
    /\ match_result.essential_matches[1].confidence = Rat(1, 2)

(***************************************************************************)
(* Properties of the phase score calculators (under SpecCalc).             *)
(***************************************************************************)
Called(name) == calc_call.name = name
Arg(k) == calc_call.args[k]
NotADict(v) == v.kind # "dict"
\* a dict holding something that is no number under one of the keys K
NonNumericUnder(d, K) ==
    d.kind = "dict" /\ \E k \in K \cap DOMAIN d.items : d.items[k].kind # "num"
\* a dict whose sub-analysis under one of the keys K is no dict, or holds a
\* score that is no number
BadComponentUnder(d, K) ==
    /\ d.kind = "dict"
    /\ \E k \in K \cap DOMAIN d.items :
        NotADict(d.items[k]) \/ NonNumericUnder(d.items[k], {"score"})

OverallKey ==
    [profile |-> "overall_profile_score",
     video |-> "overall_video_score",
     coding |-> "overall_coding_score",
     cultural_fit |-> "overall_cultural_fit_score",
     managerial |-> "overall_managerial_score"]

\* the call was given None, a non-dict, or a non-numeric component value;
\* for the profile calculator only its scalar source scores are looked at
MalformedInput ==
    \/ /\ Called("video")
       /\ NotADict(Arg(1)) \/ NonNumericUnder(Arg(1), DOMAIN VideoWeights)
    \/ /\ Called("coding")
       /\ \/ NotADict(Arg(1))
          \/ NotADict(Arg(2))
          \/ NonNumericUnder(Arg(1), CodeAnalysisKeys)
          \/ NonNumericUnder(Arg(2), {"success_rate"})
    \/ /\ Called("managerial")
       /\ NotADict(Arg(1)) \/ NonNumericUnder(Arg(1), DOMAIN ManagerialWeights)
    \/ /\ Called("cultural_fit")
       /\ \/ NotADict(Arg(1))
          \/ NonNumericUnder(Arg(1), {"cultural_fit_score"})
          \/ BadComponentUnder(Arg(1), {"value_alignment", "team_collaboration",
                                        "adaptability"})
    \/ /\ Called("profile")
       /\ \/ NonNumericUnder(Arg(1), {"overall_github_score"})
          \/ NonNumericUnder(Arg(3), {"skill_confidence"})

ZeroedWithError ==
    /\ calc_result.outcome = "returned"
    /\ "error" \in calc_result.keys
    /\ calc_result.scores[OverallKey[calc_call.name]] = IntZero

\* C18: no phase score calculator raises on malformed input (None, a
\* non-dict, or non-numeric component values); the call returns a result
\* whose overall score is 0 and which carries an error field.
C18_MalformedGivesZeroWithError == MalformedInput => ZeroedWithError

\* calculate_cultural_fit_score({"cultural_fit_score": "high"}) returns the
\* string as the overall score, without an error field
C18_PassedThrough ==
    /\ Called("cultural_fit")
    /\ Arg(1) = Dict([k \in {"cultural_fit_score"} |-> Str])
    /\ calc_result.outcome = "returned"
    /\ "error" \notin calc_result.keys
    /\ calc_result.scores["overall_cultural_fit_score"] = Str

\* calculate_cultural_fit_score(None) returns zeros without an error field
C18_NoneWithoutError ==
    /\ Called("cultural_fit")
    /\ Arg(1) = NoneVal
    /\ calc_result.outcome = "returned"
    /\ calc_result.keys = DOMAIN CulturalFitZeros
    /\ calc_result.scores["overall_cultural_fit_score"] = IntZero

\* what does hold: no call raises, and a call that carries an error field
\* has an overall score of 0
C18_NeverRaises ==
    /\ calc_result # NoCalcResult => calc_result.outcome = "returned"
    /\ (calc_result # NoCalcResult /\ "error" \in calc_result.keys) =>
           calc_result.scores[OverallKey[calc_call.name]] = IntZero

C18_ErrorReturned ==
    /\ Called("video")
    /\ Arg(1) = NoneVal
    /\ ZeroedWithError
    /\ calc_result.error = "AttributeError"

\* ---- calculate_profile_score
ProfileReturned ==
    Called("profile") /\ calc_result.outcome = "returned" /\ "error" \notin calc_result.keys

\* the value under a key of a source, 0 when the source or the key is absent
SourceValue(analysis, key) ==
    IF analysis.kind = "dict" /\ key \in DOMAIN analysis.items
    THEN analysis.items[key].val
    ELSE Zero

\* the confidences listed in the resume, a skill without one counting 0
ResumeConfidences(analysis) ==
    IF /\ analysis.kind = "dict"
       /\ "skill_analysis" \in DOMAIN analysis.items
       /\ "identified_skills" \in DOMAIN analysis.items["skill_analysis"].items
       /\ analysis.items["skill_analysis"].items["identified_skills"].kind = "list"
    THEN LET skills == analysis.items["skill_analysis"].items["identified_skills"].elems
         IN [k \in 1..Len(skills) |-> SourceValue(skills[k], "confidence")]
    ELSE <<>>

RECURSIVE Total(_)
Total(q) == IF q = <<>> THEN Zero ELSE RatAdd(Head(q), Total(Tail(q)))

MeanOf(q) == IF q = <<>> THEN Zero ELSE RatDiv(Total(q), Rat(Len(q), 1))

ThreeSources ==
    <<SourceValue(Arg(1), "overall_github_score"),
      MeanOf(ResumeConfidences(Arg(2))),
      SourceValue(Arg(3), "skill_confidence")>>

PositiveSources == SelectSeq(ThreeSources, LAMBDA x : x.n > 0)

GithubOnly ==
    /\ Called("profile")
    /\ Arg(1) = Dict([k \in {"overall_github_score"} |-> Num(Rat(4, 5))])
    /\ Arg(2) = NoneVal
    /\ Arg(3) = NoneVal

\* C19: overall_profile_score is the mean of exactly those of the three
\* source scores (GitHub overall score, mean resume skill confidence,
\* LinkedIn confidence) that are present and greater than 0, and 0 when none
\* is; a GitHub score of 0.8 with no resume or LinkedIn data gives 0.8.
C19_MeanOfPresentSources ==
    ProfileReturned =>
        /\ calc_result.scores["github_score"].val = ThreeSources[1]
        /\ calc_result.scores["resume_score"].val = ThreeSources[2]
        /\ calc_result.scores["linkedin_score"].val = ThreeSources[3]
        /\ calc_result.scores["overall_profile_score"].val = MeanOf(PositiveSources)
        /\ GithubOnly => calc_result.scores["overall_profile_score"] = Num(Rat(4, 5))

C19_Witness ==
    /\ ProfileReturned
    /\ GithubOnly
    /\ calc_result.scores["overall_profile_score"] = Num(Rat(4, 5))

\* two sources present, the third one zero and left out of the denominator
C19_TwoSourcesReached ==
    /\ ProfileReturned
    /\ ThreeSources = <<Zero, Rat(3, 4), One>>
    /\ calc_result.scores["overall_profile_score"] = Num(Rat(7, 8))

\* ---- calculate_coding_challenge_score
WellFormedCoding ==
    /\ Called("coding")
    /\ Arg(1).kind = "dict"
    /\ Arg(2).kind = "dict"
    /\ ~NonNumericUnder(Arg(1), CodeAnalysisKeys)
    /\ ~NonNumericUnder(Arg(2), {"success_rate"})

ExpectedCodingScore ==
    RatAdd(RatMul(Rat(4, 10), SourceValue(Arg(1), "correctness_score")),
    RatAdd(RatMul(Rat(3, 10), SourceValue(Arg(2), "success_rate")),
    RatAdd(RatMul(Rat(1, 10), SourceValue(Arg(1), "time_complexity_score")),
    RatAdd(RatMul(Rat(1, 10), SourceValue(Arg(1), "space_complexity_score")),
           RatMul(Rat(1, 10), SourceValue(Arg(1), "code_style_score"))))))

\* C20: overall_coding_score = 0.4*correctness_score + 0.3*success_rate +
\* 0.1*time_complexity_score + 0.1*space_complexity_score +
\* 0.1*code_style_score, a component key absent from its dict contributing
\* 0 without an error.
C20_CodingWeightedSum ==
    WellFormedCoding =>
        /\ calc_result.outcome = "returned"
        /\ "error" \notin calc_result.keys
        /\ calc_result.scores["overall_coding_score"] = Num(ExpectedCodingScore)

\* correctness and style absent, the other three components present
C20_Witness ==
    /\ WellFormedCoding
    /\ DOMAIN Arg(1).items = {"time_complexity_score", "space_complexity_score"}
    /\ Arg(1).items["time_complexity_score"] = Num(One)
    /\ Arg(1).items["space_complexity_score"] = Num(Rat(1, 2))
    /\ Arg(2).items = [k \in {"success_rate"} |-> Num(Rat(4, 5))]
    /\ calc_result.scores["overall_coding_score"] = Num(Rat(39, 100))

C20_AllPresentReached ==
    /\ WellFormedCoding
    /\ DOMAIN Arg(1).items = CodeAnalysisKeys
    /\ \A k \in CodeAnalysisKeys : Arg(1).items[k] = Num(One)
    /\ Arg(2).items = [k \in {"success_rate"} |-> Num(One)]
    /\ calc_result.scores["overall_coding_score"] = Num(One)

\* ---- calculate_cultural_fit_score
CulturalFitReturned ==
    /\ Called("cultural_fit")
    /\ Arg(1).kind = "dict"
    /\ calc_result.outcome = "returned"
    /\ "error" \notin calc_result.keys

\* the score a sub-analysis of the argument holds, 0 when there is none
ScoreUnder(key) ==
    IF /\ key \in DOMAIN Arg(1).items
       /\ Arg(1).items[key].kind = "dict"
       /\ "score" \in DOMAIN Arg(1).items[key].items
       /\ Arg(1).items[key].items["score"].kind = "num"
    THEN Arg(1).items[key].items["score"].val
    ELSE Zero

\* the number of entries listed under a key of communication_style
CountUnder(key) ==
    IF /\ "communication_style" \in DOMAIN Arg(1).items
       /\ Arg(1).items["communication_style"].kind = "dict"
       /\ key \in DOMAIN Arg(1).items["communication_style"].items
    THEN Len(Arg(1).items["communication_style"].items[key].elems)
    ELSE 0

DerivedCommunicationStyle ==
    IF CountUnder("strengths") + CountUnder("areas_for_improvement") > 0
    THEN Rat(CountUnder("strengths"),
             CountUnder("strengths") + CountUnder("areas_for_improvement"))
    ELSE Zero

FourComponents ==
    <<[weight |-> Rat(4, 10), score |-> ScoreUnder("value_alignment")],
      [weight |-> Rat(2, 10), score |-> DerivedCommunicationStyle],
      [weight |-> Rat(3, 10), score |-> ScoreUnder("team_collaboration")],
      [weight |-> Rat(1, 10), score |-> ScoreUnder("adaptability")]>>

RECURSIVE WeightedTotal(_)
WeightedTotal(q) ==
    IF q = <<>> THEN Zero
    ELSE RatAdd(RatMul(Head(q).weight, Head(q).score), WeightedTotal(Tail(q)))

RECURSIVE WeightTotal(_)
WeightTotal(q) ==
    IF q = <<>> THEN Zero ELSE RatAdd(Head(q).weight, WeightTotal(Tail(q)))

\* sum of weight*score over the components greater than 0, over the sum of
\* their weights
RenormalisedCulturalFit ==
    LET used == SelectSeq(FourComponents, LAMBDA c : c.score.n > 0)
    IN RatDiv(WeightedTotal(used), WeightTotal(used))

SomeComponentPositive == \E k \in 1..4 : FourComponents[k].score.n > 0

\* the argument carries a cultural_fit_score other than 0
OverallProvided ==
    /\ "cultural_fit_score" \in DOMAIN Arg(1).items
    /\ Arg(1).items["cultural_fit_score"] # IntZero

\* C21 as stated: the overall cultural fit score is the sum of weight*score
\* over the components present and non-zero, divided by the sum of their
\* weights.
C21_AlwaysRenormalisedComponents ==
    (CulturalFitReturned /\ SomeComponentPositive) =>
        calc_result.scores["overall_cultural_fit_score"] = Num(RenormalisedCulturalFit)

\* C21, amended: a cultural_fit_score other than 0 in the argument is returned
\* as the overall score; otherwise the overall score is the sum of
\* weight*score over the components greater than 0 divided by the sum of
\* their weights (0 when no component is), the communication style component
\* being strengths / (strengths + areas_for_improvement).
C21_RenormalisedUnlessProvided ==
    CulturalFitReturned =>
        /\ calc_result.scores["overall_cultural_fit_score"] =
               IF OverallProvided THEN Arg(1).items["cultural_fit_score"]
               ELSE IF SomeComponentPositive THEN Num(RenormalisedCulturalFit)
               ELSE IntZero
        /\ calc_result.scores["communication_style_score"] = Num(DerivedCommunicationStyle)

\* value alignment 1 and one strength against one area for improvement
C21_Witness ==
    /\ CulturalFitReturned
    /\ ~OverallProvided
    /\ ScoreUnder("value_alignment") = One
    /\ CountUnder("strengths") = 1
    /\ CountUnder("areas_for_improvement") = 1
    /\ ScoreUnder("team_collaboration") = Zero
    /\ ScoreUnder("adaptability") = Zero
    /\ calc_result.scores["overall_cultural_fit_score"] = Num(Rat(5, 6))

C21_ProvidedReached ==
    /\ CulturalFitReturned
    /\ Arg(1).items = [k \in {"cultural_fit_score", "value_alignment"} |->
                          IF k = "cultural_fit_score" THEN Num(Rat(1, 2))
                          ELSE Dict([j \in {"score"} |-> Num(One)])]
    /\ calc_result.scores["overall_cultural_fit_score"] = Num(Rat(1, 2))

\* ---- the range of the scores
OverallInUnitInterval ==
    /\ (/\ calc_result # NoCalcResult
        /\ calc_result.outcome = "returned"
        /\ calc_result.scores[OverallKey[calc_call.name]].kind = "num") =>
           InUnitInterval(calc_result.scores[OverallKey[calc_call.name]].val)
    /\ FinalCalled => InUnitInterval(final_result.overall_candidate_score)

\* C22: every score computed by the score calculators and the final
\* aggregator is clamped to [0,1]: for any inputs, including component or
\* phase scores outside [0,1], each returned overall score lies in [0,1].
C22_ClampedToUnitInterval == OverallInUnitInterval

\* calculate_video_interview_score with all three components 1.5 returns 1.5
C22_VideoAboveOne ==
    /\ Called("video")
    /\ Arg(1).kind = "dict"
    /\ DOMAIN Arg(1).items = DOMAIN VideoWeights
    /\ \A k \in DOMAIN VideoWeights : Arg(1).items[k] = Num(Rat(3, 2))
    /\ calc_result.scores["overall_video_score"] = Num(Rat(3, 2))

\* calculate_final_candidate_score(-0.5, -0.5, -0.5) returns -0.5
C22_FinalBelowZero ==
    /\ FinalCalled
    /\ final_args = [profile_score |-> Rat(-1, 2), video_score |-> Rat(-1, 2),
                     coding_score |-> Rat(-1, 2), managerial_score |-> None]
    /\ final_result.overall_candidate_score = Rat(-1, 2)
    /\ final_result.assessment = "Below Average Candidate"

\* what does hold: in-range phase scores give an in-range final score
C22_InRangeStaysInRange ==
    (/\ FinalCalled
     /\ "error" \notin final_result.keys
     /\ \A k \in DOMAIN final_args :
         final_args[k] = None \/ InUnitInterval(final_args[k])) =>
        InUnitInterval(final_result.overall_candidate_score)

\* ---- the aggregator on degraded phases
AssessmentLabels ==
    {"Excellent Candidate", "Strong Candidate", "Good Candidate", "Average Candidate",
     "Below Average Candidate"}

\* some phase came out as a score of 0
DegradedInput == \E k \in DOMAIN final_args : final_args[k] = Zero

C23_AllDegradedReached ==
    /\ FinalCalled
    /\ \A k \in DOMAIN final_args : final_args[k] = Zero
    /\ final_result.overall_candidate_score = Zero
    /\ final_result.assessment = "Below Average Candidate"

(***************************************************************************)
(* routes/coding_routes.py: submit_solution.  The database holds one       *)
(* coding challenge (id 1, of candidate 1) and its test_case rows; the     *)
(* feedback and updated_at columns are left out.                           *)
(***************************************************************************)
MaxFirstId == 3

\* models.py TestCase: the rows of the challenge, with consecutive primary keys
\* from first_id on (rows of earlier challenges hold the keys below first_id).
\* writes is history: how often the handler has assigned passed/actual_output.
TestCaseRows(cases, first_id) ==
    [k \in 1..Len(cases) |->
        [id |-> first_id + k - 1,
         input_data |-> cases[k].input,
         expected_output |-> cases[k].expected_output,
         passed |-> Null,
         actual_output |-> Null,
         writes |-> 0]]

\* the challenge before any submission
FreshChallenge == [NoChallenge EXCEPT !.id = 1, !.candidate_id = 1]

\* current_user as token_required passes it, with the id of the candidate
\* profile of that user (0: no candidate profile)
SubmitUsers ==
    {[is_recruiter |-> FALSE, candidate_id |-> 1],
     [is_recruiter |-> FALSE, candidate_id |-> 2],
     [is_recruiter |-> FALSE, candidate_id |-> 0],
     [is_recruiter |-> TRUE, candidate_id |-> 0]}

SubmitRequests ==
    {[name |-> "submit_solution", has_code |-> h, challenge_id |-> c, current_user |-> u] :
        h \in BOOLEAN, c \in {1, 2}, u \in SubmitUsers}

\* data['code']
SubmittedCode == "def solution(input_str): ..."

\* the early returns without the test of lines 297-298
SubmitEarlyReturnNoTestCaseCheck(req) ==
    IF ~req.has_code
    THEN [status |-> 400, error |-> "Missing required field: code"]
    ELSE IF req.challenge_id # challenge.id
    THEN [status |-> 404, error |-> "Coding challenge not found"]
    ELSE IF /\ ~req.current_user.is_recruiter
            /\ \/ req.current_user.candidate_id = 0
               \/ challenge.candidate_id # req.current_user.candidate_id
    THEN [status |-> 403, error |-> "Unauthorized access"]
    ELSE NoResponse

\* lines 280-298: the early returns, or NoResponse when the handler goes on
SubmitEarlyReturn(req) ==
    IF ~req.has_code
    THEN [status |-> 400, error |-> "Missing required field: code"]
    ELSE IF req.challenge_id # challenge.id
    THEN [status |-> 404, error |-> "Coding challenge not found"]
    ELSE IF /\ ~req.current_user.is_recruiter
            /\ \/ req.current_user.candidate_id = 0
               \/ challenge.candidate_id # req.current_user.candidate_id
    THEN [status |-> 403, error |-> "Unauthorized access"]
    ELSE IF test_case_rows = <<>>
    THEN [status |-> 400, error |-> "No test cases found for this challenge"]
    ELSE NoResponse

\* lines 301-307
test_case_data(rows) ==
    [k \in 1..Len(rows) |->
        [input |-> rows[k].input_data,
         expected_output |-> rows[k].expected_output,
         id |-> rows[k].id]]

\* lines 277-313: the handler up to its call of run_test_cases
SubmitSolution ==
    /\ request = NoRequest
    /\ run_pc = "idle"
    /\ \E req \in SubmitRequests :
        /\ request' = req
        /\ response' = SubmitEarlyReturn(req)
        /\ IF SubmitEarlyReturn(req) = NoResponse
           THEN /\ run_pc' = "loop"
                /\ test_cases' = test_case_data(test_case_rows)
                /\ language' = challenge.language
           ELSE UNCHANGED <<run_pc, test_cases, language>>
    /\ UNCHANGED <<i, results, run_result, exec_calls>>
    /\ UNCHANGED <<pc, stdin, attempts, exec_result, posts, polls, pending_replies, last_reply>>
    /\ UNCHANGED <<scoring_vars, session_vars, match_vars, calc_vars, submit_vars>>
    /\ UNCHANGED <<handled, skill_vars, account_vars>>

\* line 318: next((tc for tc in test_cases if tc.id == result.get("test_case_id")), None)
RowForResult(rows, result) ==
    {k \in 1..Len(rows) : rows[k].id = result.test_case_id}

\* lines 317-321: the loop over the results, from result number n on
RECURSIVE UpdateTestCases(_, _, _)
UpdateTestCases(rows, res, n) ==
    IF n > Len(res) THEN rows
    ELSE LET found == RowForResult(rows, res[n])
             updated ==
                 IF found = {} THEN rows
                 ELSE LET k == CHOOSE x \in found : \A y \in found : x <= y
                      IN [rows EXCEPT ![k].passed = Some(res[n].passed),
                                      ![k].actual_output = Some(res[n].actual_output),
                                      ![k].writes = @ + 1]
         IN UpdateTestCases(updated, res, n + 1)

\* utils/ai_assessment.py analyze_code_submission: what the language model
\* answered, or the dict of the except branch (lines 364-369)
AnalysisFailure == Dict([error |-> Str, overall_code_score |-> IntZero])
AnalysisReplies ==
    {Dict([k \in CodeAnalysisKeys |-> Num(One)]),
     Dict([k \in CodeAnalysisKeys |-> Num(Rat(1, 2))]),
     AnalysisFailure}

\* scores.get(key, 0)
ScoresGet(scores, k) == IF k \in DOMAIN scores.scores THEN scores.scores[k] ELSE IntZero

\* lines 337-342
UpdatedChallenge(row, code, scores) ==
    [row EXCEPT !.code_submission = Some(code),
                !.correctness_score = Some(ScoresGet(scores, "correctness_score")),
                !.time_complexity_score = Some(ScoresGet(scores, "time_complexity_score")),
                !.space_complexity_score = Some(ScoresGet(scores, "space_complexity_score")),
                !.style_score = Some(ScoresGet(scores, "code_style_score")),
                !.overall_score = Some(ScoresGet(scores, "overall_coding_score"))]

\* lines 316-358: run_test_cases has returned; the rows and the challenge are
\* updated and committed, or rolled back when the commit raises
SubmitFinish ==
    /\ request # NoRequest
    /\ request.name = "submit_solution"
    /\ response = NoResponse
    /\ run_pc = "done"
    /\ \E code_analysis \in AnalysisReplies, committed \in BOOLEAN :
        LET scores == calculate_coding_challenge_score(
                          code_analysis,
                          Dict([success_rate |-> Num(run_result.success_rate)]))
        IN IF committed
           THEN /\ test_case_rows' =
                       IF run_result.status = "success"
                       THEN UpdateTestCases(test_case_rows, run_result.results, 1)
                       ELSE test_case_rows
                /\ challenge' = UpdatedChallenge(challenge, SubmittedCode, scores)
                /\ response' = [status |-> 200, error |-> "none"]
           ELSE /\ UNCHANGED submit_vars
                /\ response' = [status |-> 500, error |-> "Failed to submit solution"]
    /\ UNCHANGED <<request, handled, exec_vars, run_vars, skill_vars, account_vars>>
    /\ UNCHANGED <<scoring_vars, session_vars, match_vars, calc_vars>>

\* one request to submit_solution, against a deterministic judge
InitSubmit ==
    /\ IdleScoring
    /\ IdleExecute
    /\ IdleRun
    /\ IdleMatch
    /\ IdleCalc
    /\ language = "python"
    /\ judge \in DeterministicJudges
    /\ invocation = 1
    /\ first_run_result = NoRunResult
    /\ request = NoRequest
    /\ response = NoResponse
    /\ handled = 0
    /\ IdleSkills
    /\ IdleAccounts
    /\ challenge = FreshChallenge
    /\ \E cases \in SeqsUpTo(TestCaseInputs, MaxCases), first_id \in 1..MaxFirstId :
        test_case_rows = TestCaseRows(cases, first_id)
NextSubmit ==
    \/ SubmitSolution
    \/ RunExecuteCase
    \/ execute_code
    \/ RunAppendResult
    \/ RunReturn
    \/ SubmitFinish
SpecSubmit == InitSubmit /\ [][NextSubmit]_vars

(***************************************************************************)
(* Claims about submit_solution.                                           *)
(***************************************************************************)
\* the request was a submission and was answered with the given status
Submitted(status) ==
    /\ request # NoRequest
    /\ request.name = "submit_solution"
    /\ response.status = status

\* row k holds the outcome of the execution that ran on its own input
HoldsOwnOutcome(k) ==
    /\ test_case_rows[k].passed = Some(run_result.results[k].passed)
    /\ test_case_rows[k].actual_output = Some(run_result.results[k].actual_output)

\* the primary keys of the rows are 1, 2, ... in query order
IdsFromOne == \A k \in 1..Len(test_case_rows) : test_case_rows[k].id = k

\* C24: after a submission with a successful test run, every test case row
\* of the challenge has been written exactly once, and holds the passed and
\* actual_output of the execution that used its own input and expected
\* output, whatever the database ids of the rows are.
C24_EveryRowMutatedOnce ==
    Submitted(200) /\ run_result.status = "success" =>
        \A k \in 1..Len(test_case_rows) :
            /\ test_case_rows[k].writes = 1
            /\ run_result.results[k].input = test_case_rows[k].input_data
            /\ HoldsOwnOutcome(k)

\* C24, where it fails: a submission was accepted and a row was never written
C24_RowNeverWritten ==
    /\ Submitted(200)
    /\ \E k \in 1..Len(test_case_rows) :
        /\ test_case_rows[k].writes = 0
        /\ test_case_rows[k].passed = Null

\* C24, where it fails: a row holds the outcome of another test case
C24_RowHoldsOtherOutcome ==
    /\ Submitted(200)
    /\ \E k \in 1..Len(test_case_rows) :
        /\ test_case_rows[k].writes = 1
        /\ test_case_rows[k].passed # Some(run_result.results[k].passed)

\* C24 holds for a challenge whose rows have the primary keys 1..n
C24_HoldsForIdsFromOne ==
    Submitted(200) /\ IdsFromOne =>
        \A k \in 1..Len(test_case_rows) :
            test_case_rows[k].writes = 1 /\ HoldsOwnOutcome(k)

\* no row is written twice by one submission
C24_AtMostOnce ==
    \A k \in 1..Len(test_case_rows) : test_case_rows[k].writes <= 1

C24_IdsFromOneReached ==
    Submitted(200) /\ IdsFromOne /\ Len(test_case_rows) = MaxCases

\* the request passes the checks of lines 280-292 (code present, challenge
\* found, caller allowed)
PassesEarlyChecks ==
    /\ request.has_code
    /\ request.challenge_id = challenge.id
    /\ \/ request.current_user.is_recruiter
       \/ request.current_user.candidate_id = challenge.candidate_id

\* C27: a submission to a challenge without test cases is rejected before
\* anything runs: the answer is an error (400 "No test cases found for this
\* challenge" once the earlier checks pass), execute_code is never called, the
\* judge receives no request, and the challenge row keeps its code_submission
\* and its scores.
C27_NoTestCasesRejected ==
    (request # NoRequest /\ request.name = "submit_solution" /\ test_case_rows = <<>>) =>
        /\ response.status \in {400, 403, 404}
        /\ PassesEarlyChecks =>
               response = [status |-> 400, error |-> "No test cases found for this challenge"]
        /\ run_pc = "idle"
        /\ pc = "idle"
        /\ exec_calls = <<>>
        /\ posts = <<>>
        /\ polls = 0
        /\ challenge = FreshChallenge

C27_Witness ==
    /\ Submitted(400)
    /\ PassesEarlyChecks
    /\ test_case_rows = <<>>
    /\ response.error = "No test cases found for this challenge"
    /\ challenge.code_submission = Null
    /\ challenge.overall_score = Null

(***************************************************************************)
(* Claims about the judge's terminal status.                               *)
(***************************************************************************)
\* the judge's last answer is a status object that is neither queued nor processing
JudgeReplyIsTerminal == last_reply.kind = "json" /\ last_reply.status_id \in TerminalStatusIds

\* C30: whatever terminal status the judge reports (Accepted, Compilation
\* Error, a status without id), execute_code returns status success, and the
\* test case is marked passed exactly when the stripped stdout equals the
\* stripped expected output: the terminal status plays no part.
C30_TerminalStatusIgnored ==
    [][(Len(results') = Len(results) + 1 /\ JudgeReplyIsTerminal) =>
        LET appended == results'[Len(results')]
        IN /\ exec_result.status = "success"
           /\ exec_result.status_id = last_reply.status_id
           /\ appended.error_message = <<>>
           /\ appended.passed <=>
                (Trimmed(DecodeStdout(last_reply.stdout))
                    = Trimmed(test_cases[i + 1].expected_output))]_vars

\* execute_code has returned success for a compilation error without stdout,
\* on a test case that expects no output
C30_Witness ==
    /\ run_pc = "loop"
    /\ pc = "done"
    /\ last_reply.kind = "json"
    /\ last_reply.status_id = 6
    /\ last_reply.stdout = JsonNull
    /\ exec_result.status = "success"
    /\ test_cases[i + 1].expected_output = <<>>

\* the step after C30_Witness: that case is in the results as passed
C30_EmptyExpectedPassed ==
    /\ Len(results) >= 1
    /\ test_cases[1].expected_output = <<>>
    /\ results[1].passed
    /\ results[1].actual_output = <<>>

(***************************************************************************)
(* Skill assessments: routes/assessment_routes.py create_skill_assessment, *)
(* routes/candidate_routes.py analyze_github and analyze_resume.  The      *)
(* database holds the candidates 1 and 2; every handler runs from start to *)
(* end before the next one starts.  The name comparison of filter_by is    *)
(* the exact one of SQLite (used by the tests) and PostgreSQL.             *)
(***************************************************************************)
MaxRequests == 2

CandidateIds == {1, 2}
SkillNameInputs == {"Python", "python"}
AssessmentScores == {Rat(1, 2), One}

\* current_user with the id of the candidate profile of that user (0: none)
SkillUsers ==
    {[is_recruiter |-> FALSE, candidate_id |-> 1],
     [is_recruiter |-> FALSE, candidate_id |-> 2],
     [is_recruiter |-> TRUE, candidate_id |-> 0]}

\* the three tables as one value
SkillDb == [skills |-> skill_table, links |-> candidate_links, assessments |-> assessment_table]

\* .first() of a query result given as the set of matching positions
First(found) == CHOOSE x \in found : \A y \in found : x <= y

\* CandidateSkill.query.filter_by(name=skill_name)
FindSkill(skills, name) == {k \in 1..Len(skills) : skills[k].name = name}

\* the skill is created when the lookup finds none
FindOrCreateSkill(skills, name) ==
    IF FindSkill(skills, name) = {}
    THEN Append(skills, [id |-> Len(skills) + 1, name |-> name])
    ELSE skills

\* SkillAssessment.query.filter_by(candidate_id=, skill_id=, assessment_source=)
FindAssessment(table, cid, sid, src) ==
    {k \in 1..Len(table) : /\ table[k].candidate_id = cid
                           /\ table[k].skill_id = sid
                           /\ table[k].assessment_source = src}

NewAssessment(table, cid, sid, src, score, confidence) ==
    [id |-> Len(table) + 1, candidate_id |-> cid, skill_id |-> sid, score |-> score,
     confidence |-> confidence, assessment_source |-> src]

\* an assessment write that never looks for an existing record
CreateAssessmentAlways(table, cid, sid, src, score, confidence) ==
    Append(table, NewAssessment(table, cid, sid, src, score, confidence))

\* the record is created when the lookup finds none and overwritten otherwise
CreateOrUpdateAssessment(table, cid, sid, src, score, confidence) ==
    IF FindAssessment(table, cid, sid, src) = {}
    THEN Append(table, NewAssessment(table, cid, sid, src, score, confidence))
    ELSE [table EXCEPT ![First(FindAssessment(table, cid, sid, src))] =
             [@ EXCEPT !.score = score, !.confidence = confidence]]

\* one skill assessment written for candidate cid: find or create the skill,
\* link it to the candidate, create or update the assessment
AssessSkill(d, cid, name, src, score, confidence) ==
    LET skills == FindOrCreateSkill(d.skills, name)
        sid == skills[First(FindSkill(skills, name))].id
    IN [skills |-> skills,
        links |-> d.links \cup {<<cid, sid>>},
        assessments |-> CreateOrUpdateAssessment(d.assessments, cid, sid, src,
                                                 score, confidence)]

\* the request bodies of create_skill_assessment: the complete ones, one with
\* a field missing and one naming a candidate that does not exist
SkillAssessmentRequests ==
    {[name |-> "create_skill_assessment", complete |-> TRUE, candidate_id |-> 1,
      skill_name |-> n, score |-> s, confidence |-> c, assessment_source |-> src] :
        n \in SkillNameInputs, s \in AssessmentScores, c \in AssessmentScores,
        src \in {"manual", "github"}}
    \cup {[name |-> "create_skill_assessment", complete |-> b, candidate_id |-> cid,
           skill_name |-> "Python", score |-> One, confidence |-> One,
           assessment_source |-> "manual"] :
            b \in BOOLEAN, cid \in {1, 3}}

\* assessment_routes.py lines 162-229
CreateSkillAssessment ==
    /\ handled < MaxRequests
    /\ handled' = handled + 1
    /\ \E req \in SkillAssessmentRequests, user \in SkillUsers,
          skill_committed \in BOOLEAN, committed \in BOOLEAN :
        /\ request' = req
        /\ IF ~req.complete
           THEN /\ response' = [status |-> 400, error |-> "Missing required field"]
                /\ UNCHANGED skill_vars
           ELSE IF req.candidate_id \notin CandidateIds
           THEN /\ response' = [status |-> 404, error |-> "Candidate not found"]
                /\ UNCHANGED skill_vars
           ELSE IF /\ ~user.is_recruiter
                   /\ user.candidate_id # req.candidate_id
           THEN /\ response' = [status |-> 403, error |-> "Unauthorized access"]
                /\ UNCHANGED skill_vars
           ELSE IF FindSkill(skill_table, req.skill_name) = {} /\ ~skill_committed
           THEN /\ response' = [status |-> 500, error |-> "Failed to create skill"]
                /\ UNCHANGED skill_vars
           ELSE IF ~committed
           THEN /\ response' = [status |-> 500,
                                error |-> "Failed to create/update skill assessment"]
                /\ skill_table' = FindOrCreateSkill(skill_table, req.skill_name)
                /\ UNCHANGED <<candidate_links, assessment_table>>
           ELSE LET d == AssessSkill(SkillDb, req.candidate_id, req.skill_name,
                                     req.assessment_source, req.score, req.confidence)
                IN /\ response' = [status |-> 200, error |-> "none"]
                   /\ skill_table' = d.skills
                   /\ candidate_links' = d.links
                   /\ assessment_table' = d.assessments
    /\ UNCHANGED <<scoring_vars, exec_vars, run_vars, session_vars, match_vars, calc_vars>>
    /\ UNCHANGED <<submit_vars, account_vars>>

\* candidate_routes.py lines 273-316 and 367-409: the loop over the
\* identified skills, from item number n on; every commit succeeds
RECURSIVE AssessIdentified(_, _, _, _, _)
AssessIdentified(d, cid, src, items, n) ==
    IF n > Len(items) THEN d
    ELSE AssessIdentified(
             AssessSkill(d, cid, items[n].skill, src, items[n].confidence,
                         items[n].confidence),
             cid, src, items, n + 1)

\* candidate_routes.py lines 275-276: the share of the evidence text taken by
\* the skill name, between 0.1 and 1.0
GithubConfidence(count) ==
    LET confidence == Rat(count, 10)
        lower == IF RatGE(confidence, Rat(1, 10)) THEN confidence ELSE Rat(1, 10)
    IN IF RatLE(lower, One) THEN lower ELSE One

\* the identified_skills lists of a GitHub analysis: the skill and how often
\* its name occurs in the evidence text
GithubSkillLists ==
    {<<>>,
     <<[skill |-> "Python", count |-> 0]>>,
     <<[skill |-> "python", count |-> 5]>>,
     <<[skill |-> "Python", count |-> 5], [skill |-> "python", count |-> 20]>>,
     <<[skill |-> "Python", count |-> 0], [skill |-> "Python", count |-> 20]>>}

\* what fetch_github_profile and the checks before it come to
GithubReplies ==
    {[kind |-> k, identified_skills |-> <<>>] : k \in {"no_url", "invalid_url", "error"}}
    \cup {[kind |-> "ok", identified_skills |-> q] : q \in GithubSkillLists}

\* candidate_routes.py lines 237-318, for a user with a candidate profile or a recruiter
AnalyzeGithub ==
    /\ handled < MaxRequests
    /\ handled' = handled + 1
    /\ \E user \in {u \in SkillUsers : u.is_recruiter \/ u.candidate_id = 1},
          github_data \in GithubReplies :
        /\ request' = [name |-> "analyze_github", github_data |-> github_data]
        /\ IF user.is_recruiter
           THEN /\ response' = [status |-> 403, error |-> "Recruiters cannot use this endpoint"]
                /\ UNCHANGED skill_vars
           ELSE IF github_data.kind # "ok"
           THEN /\ response' = [status |-> 400, error |-> github_data.kind]
                /\ UNCHANGED skill_vars
           ELSE LET items == [k \in 1..Len(github_data.identified_skills) |->
                                 [skill |-> github_data.identified_skills[k].skill,
                                  confidence |->
                                      GithubConfidence(github_data.identified_skills[k].count)]]
                    d == AssessIdentified(SkillDb, user.candidate_id, "github", items, 1)
                IN /\ response' = [status |-> 200, error |-> "none"]
                   /\ skill_table' = d.skills
                   /\ candidate_links' = d.links
                   /\ assessment_table' = d.assessments
    /\ UNCHANGED <<scoring_vars, exec_vars, run_vars, session_vars, match_vars, calc_vars>>
    /\ UNCHANGED <<submit_vars, account_vars>>

\* candidate_routes.py line 369: skill_info.get("confidence", 0.5)
ResumeConfidence(skill_info) ==
    IF skill_info.confidence = Null THEN Rat(1, 2) ELSE skill_info.confidence[1]

\* the identified_skills lists of a resume analysis
ResumeSkillLists ==
    {<<>>,
     <<[skill |-> "Python", confidence |-> Null]>>,
     <<[skill |-> "python", confidence |-> Some(One)]>>,
     <<[skill |-> "Python", confidence |-> Some(One)],
       [skill |-> "python", confidence |-> Null]>>,
     <<[skill |-> "python", confidence |-> Null],
       [skill |-> "python", confidence |-> Some(One)]>>}

\* what parse_resume_text and the check before it come to
ResumeReplies ==
    {[kind |-> k, identified_skills |-> <<>>] :
        k \in {"no_text", "error", "no_parsed_resume"}}
    \cup {[kind |-> "ok", identified_skills |-> q] : q \in ResumeSkillLists}

\* candidate_routes.py lines 334-417, for a user with a candidate profile or a recruiter
AnalyzeResume ==
    /\ handled < MaxRequests
    /\ handled' = handled + 1
    /\ \E user \in {u \in SkillUsers : u.is_recruiter \/ u.candidate_id = 1},
          resume_analysis \in ResumeReplies :
        /\ request' = [name |-> "analyze_resume", resume_analysis |-> resume_analysis]
        /\ IF user.is_recruiter
           THEN /\ response' = [status |-> 403, error |-> "Recruiters cannot use this endpoint"]
                /\ UNCHANGED skill_vars
           ELSE IF resume_analysis.kind \in {"no_text", "error"}
           THEN /\ response' = [status |-> 400, error |-> resume_analysis.kind]
                /\ UNCHANGED skill_vars
           ELSE IF resume_analysis.kind = "no_parsed_resume"
           THEN /\ response' = [status |-> 200, error |-> "none"]
                /\ UNCHANGED skill_vars
           ELSE LET items == [k \in 1..Len(resume_analysis.identified_skills) |->
                                 [skill |-> resume_analysis.identified_skills[k].skill,
                                  confidence |->
                                      ResumeConfidence(resume_analysis.identified_skills[k])]]
                    d == AssessIdentified(SkillDb, user.candidate_id, "resume", items, 1)
                IN /\ response' = [status |-> 200, error |-> "none"]
                   /\ skill_table' = d.skills
                   /\ candidate_links' = d.links
                   /\ assessment_table' = d.assessments
    /\ UNCHANGED <<scoring_vars, exec_vars, run_vars, session_vars, match_vars, calc_vars>>
    /\ UNCHANGED <<submit_vars, account_vars>>

\* any sequence of skill-assessment writes on an empty database
InitSkills ==
    /\ IdleScoring
    /\ IdleExecute
    /\ language = "python"
    /\ IdleRun
    /\ IdleSession
    /\ IdleMatch
    /\ IdleCalc
    /\ IdleWeb
NextSkills == CreateSkillAssessment \/ AnalyzeGithub \/ AnalyzeResume
SpecSkills == InitSkills /\ [][NextSkills]_vars

(***************************************************************************)
(* Claims about the skill assessments.                                     *)
(***************************************************************************)
SameTuple(a, b) ==
    /\ a.candidate_id = b.candidate_id
    /\ a.skill_id = b.skill_id
    /\ a.assessment_source = b.assessment_source

OneRecordPerTuple(table) ==
    \A j, k \in 1..Len(table) : SameTuple(table[j], table[k]) => j = k

\* the step was a create_skill_assessment call that was answered 200
CreateSucceeded ==
    /\ handled' = handled + 1
    /\ request'.name = "create_skill_assessment"
    /\ response'.status = 200

\* the records the request of the step meets in the table before the step
MetByRequest ==
    {k \in 1..Len(assessment_table) :
        /\ assessment_table[k].candidate_id = request'.candidate_id
        /\ assessment_table[k].assessment_source = request'.assessment_source
        /\ \E n \in FindSkill(skill_table, request'.skill_name) :
               skill_table[n].id = assessment_table[k].skill_id}

\* C25: whatever skill-assessment writes are made one after the other, the
\* table holds at most one record per (candidate, skill, source); no write
\* removes or re-keys a record; a create_skill_assessment that meets a record
\* of its candidate, skill and source overwrites the score and confidence of
\* that record and adds none, and one that meets no such record (the skill
\* may have records from other sources) adds exactly one record and leaves
\* the others as they were.
C25_OneRecordPerTuple ==
    [][/\ OneRecordPerTuple(assessment_table')
       /\ Len(assessment_table') >= Len(assessment_table)
       /\ \A k \in 1..Len(assessment_table) :
              /\ assessment_table'[k].id = assessment_table[k].id
              /\ SameTuple(assessment_table'[k], assessment_table[k])
       /\ CreateSucceeded =>
            IF MetByRequest # {}
            THEN /\ Len(assessment_table') = Len(assessment_table)
                 /\ \A k \in 1..Len(assessment_table) :
                        IF k \in MetByRequest
                        THEN /\ assessment_table'[k].score = request'.score
                             /\ assessment_table'[k].confidence = request'.confidence
                        ELSE assessment_table'[k] = assessment_table[k]
            ELSE /\ Len(assessment_table') = Len(assessment_table) + 1
                 /\ SubSeq(assessment_table', 1, Len(assessment_table)) = assessment_table
                 /\ LET added == assessment_table'[Len(assessment_table')]
                    IN /\ added.candidate_id = request'.candidate_id
                       /\ added.assessment_source = request'.assessment_source
                       /\ added.score = request'.score
                       /\ added.confidence = request'.confidence
                       /\ \E n \in FindSkill(skill_table', request'.skill_name) :
                              skill_table'[n].id = added.skill_id]_vars

\* a manual assessment of "Python", then a GitHub analysis naming "Python"
\* twice: the GitHub record is separate from the manual one, and the second
\* mention has overwritten the first (confidence 0.1, then 1.0)
C25_Witness ==
    /\ request # NoRequest
    /\ request.name = "analyze_github"
    /\ response.status = 200
    /\ request.github_data.identified_skills =
           <<[skill |-> "Python", count |-> 0], [skill |-> "Python", count |-> 20]>>
    /\ Len(assessment_table) = 2
    /\ assessment_table[1].assessment_source = "manual"
    /\ assessment_table[2].assessment_source = "github"
    /\ assessment_table[1].skill_id = assessment_table[2].skill_id
    /\ assessment_table[2].confidence = One

\* a second create_skill_assessment for the same tuple left one record
C25_OverwriteReached ==
    /\ handled = 2
    /\ request.name = "create_skill_assessment"
    /\ response.status = 200
    /\ Len(assessment_table) = 1
    /\ Len(skill_table) = 1
    /\ candidate_links = {<<1, 1>>}
    /\ assessment_table[1].score = Rat(1, 2)
    /\ assessment_table[1].confidence = One

\* the name of the skill a record is about
SkillNameOf(record) ==
    skill_table[First({n \in 1..Len(skill_table) : skill_table[n].id = record.skill_id})].name

\* C26: a skill's identity is its lower-cased name: no two skills have names
\* that differ only in letter case, and no two assessment records of one
\* candidate and one source are about names that differ only in letter case
\* (the second submission overwrites the first).
C26_IdentityIsLowerCasedName ==
    /\ \A j, k \in 1..Len(skill_table) :
           Lower(skill_table[j].name) = Lower(skill_table[k].name) => j = k
    /\ \A j, k \in 1..Len(assessment_table) :
           (/\ assessment_table[j].candidate_id = assessment_table[k].candidate_id
            /\ assessment_table[j].assessment_source = assessment_table[k].assessment_source
            /\ Lower(SkillNameOf(assessment_table[j])) = Lower(SkillNameOf(assessment_table[k])))
               => j = k

\* "Python" and then "python" were submitted for candidate 1 from the same
\* source: two skills and two assessment records
C26_TwoSkillsForOneName ==
    /\ handled = 2
    /\ request.name = "create_skill_assessment"
    /\ request.skill_name = "python"
    /\ Len(skill_table) = 2
    /\ skill_table[1].name = "Python"
    /\ skill_table[2].name = "python"
    /\ Len(assessment_table) = 2
    /\ assessment_table[1].candidate_id = assessment_table[2].candidate_id
    /\ assessment_table[1].assessment_source = assessment_table[2].assessment_source
    /\ assessment_table[1].skill_id # assessment_table[2].skill_id

\* names are kept apart exactly: no two skills share a name
C26_ExactNamesUnique ==
    \A j, k \in 1..Len(skill_table) : skill_table[j].name = skill_table[k].name => j = k

(***************************************************************************)
(* Accounts and roles: utils/auth.py (generate_token, token_required,      *)
(* recruiter_required, register_user, login_user), routes/auth_routes.py,  *)
(* routes/interview_routes.py create_interview and                         *)
(* routes/candidate_routes.py get_own_profile.  Passwords are modelled by  *)
(* whether the one sent is the right one.  Every recruiter has posted one  *)
(* job position, whose id is the recruiter's.                              *)
(***************************************************************************)
MaxAccountRequests == 3

UsernameInputs == {"alice", "bob"}
EmailInputs == {"a@example.com", "b@example.com"}

\* the request bodies of /register: the complete ones and one with a field missing
RegisterRequests ==
    {[name |-> "register", complete |-> TRUE, username |-> u, email |-> e,
      is_recruiter |-> r] :
        u \in UsernameInputs, e \in EmailInputs, r \in BOOLEAN}
    \cup {[name |-> "register", complete |-> FALSE, username |-> "alice",
           email |-> "a@example.com", is_recruiter |-> FALSE]}

\* a registration that never looks for an existing user
ExistingUsersUnchecked(users, username, email) == {}

\* auth.py lines 79-81: the users with that username or that email
ExistingUsers(users, username, email) ==
    {k \in 1..Len(users) : users[k].username = username \/ users[k].email = email}

\* auth.py lines 83-87
DuplicateError(existing_user, username) ==
    IF existing_user.username = username
    THEN "Username already taken"
    ELSE "Email already registered"

\* auth.py lines 9-17: the payload of the token (the expiry is the state of
\* the token a request carries)
generate_token(user_id, is_recruiter) == [user_id |-> user_id, is_recruiter |-> is_recruiter]

\* auth_routes.py lines 22-50 and auth.py lines 76-136.  The query of lines
\* 79-81 has no ORDER BY: .first() may return any of the matching users.
Register ==
    /\ handled < MaxAccountRequests
    /\ handled' = handled + 1
    /\ \E req \in RegisterRequests, user_committed \in BOOLEAN, profile_committed \in BOOLEAN :
        /\ request' = req
        /\ IF ~req.complete
           THEN /\ response' = [status |-> 400, error |-> "Missing required field"]
                /\ UNCHANGED account_vars
           ELSE IF ExistingUsers(user_table, req.username, req.email) # {}
           THEN /\ \E k \in ExistingUsers(user_table, req.username, req.email) :
                       response' = [status |-> 400,
                                    error |-> DuplicateError(user_table[k], req.username)]
                /\ UNCHANGED account_vars
           ELSE IF ~user_committed
           THEN /\ response' = [status |-> 500, error |-> "Registration failed"]
                /\ UNCHANGED account_vars
           ELSE LET new_user == [id |-> Len(user_table) + 1, username |-> req.username,
                                 email |-> req.email, is_recruiter |-> req.is_recruiter]
                IN /\ user_table' = Append(user_table, new_user)
                   /\ UNCHANGED interview_table
                   /\ IF ~profile_committed
                      THEN /\ response' = [status |-> 500, error |-> "Registration failed"]
                           /\ UNCHANGED <<candidate_table, recruiter_table, issued_tokens>>
                      ELSE /\ response' = [status |-> 201, error |-> "none"]
                           /\ issued_tokens' =
                                  issued_tokens
                                      \cup {generate_token(new_user.id, req.is_recruiter)}
                           /\ IF req.is_recruiter
                              THEN /\ recruiter_table' =
                                          Append(recruiter_table,
                                                 [id |-> Len(recruiter_table) + 1,
                                                  user_id |-> new_user.id])
                                   /\ UNCHANGED candidate_table
                              ELSE /\ candidate_table' =
                                          Append(candidate_table,
                                                 [id |-> Len(candidate_table) + 1,
                                                  user_id |-> new_user.id])
                                   /\ UNCHANGED recruiter_table
    /\ UNCHANGED <<scoring_vars, exec_vars, run_vars, session_vars, match_vars, calc_vars>>
    /\ UNCHANGED <<submit_vars, skill_vars>>

\* auth.py lines 138-156
Login ==
    /\ handled < MaxAccountRequests
    /\ handled' = handled + 1
    /\ \E username_or_email \in UsernameInputs \cup EmailInputs, password_ok \in BOOLEAN :
        LET found == {k \in 1..Len(user_table) :
                         \/ user_table[k].username = username_or_email
                         \/ user_table[k].email = username_or_email}
        IN /\ request' = [name |-> "login", username_or_email |-> username_or_email,
                          password_ok |-> password_ok]
           /\ IF found = {} \/ ~password_ok
              THEN /\ response' = [status |-> 401,
                                   error |-> "Invalid username/email or password"]
                   /\ UNCHANGED issued_tokens
              ELSE \E k \in found :
                       /\ response' = [status |-> 200, error |-> "none"]
                       /\ issued_tokens' =
                              issued_tokens
                                  \cup {generate_token(user_table[k].id,
                                                       user_table[k].is_recruiter)}
    /\ UNCHANGED <<user_table, candidate_table, recruiter_table, interview_table>>
    /\ UNCHANGED <<scoring_vars, exec_vars, run_vars, session_vars, match_vars, calc_vars>>
    /\ UNCHANGED <<submit_vars, skill_vars>>

\* what the Authorization header of a request may hold: nothing, something
\* that is no token of this server, or a token this server has signed, still
\* valid or expired
TokenInputs ==
    {[state |-> s, user_id |-> 0, is_recruiter |-> FALSE] : s \in {"missing", "invalid"}}
    \cup {[state |-> s, user_id |-> t.user_id, is_recruiter |-> t.is_recruiter] :
            s \in {"valid", "expired"}, t \in issued_tokens}

\* User.query.get(user_id)
UserById(user_id) == {k \in 1..Len(user_table) : user_table[k].id = user_id}

\* auth.py lines 23-40 and 50-57, 67-70: the answers to a request whose token
\* is missing or does not decode; NoResponse when the token decodes
DecodeToken(token) ==
    CASE token.state = "missing" ->
             [status |-> 401, error |-> "Authentication token is missing!"]
      [] token.state = "expired" -> [status |-> 401, error |-> "Token has expired!"]
      [] token.state = "invalid" -> [status |-> 401, error |-> "Invalid token!"]
      [] OTHER -> NoResponse

\* auth.py lines 19-44: the answer of the decorator, NoResponse when it calls
\* the handler
token_required(token) ==
    IF DecodeToken(token) # NoResponse THEN DecodeToken(token)
    ELSE IF UserById(token.user_id) = {}
    THEN [status |-> 401, error |-> "User not found!"]
    ELSE NoResponse

\* recruiter_required asking for no more than token_required does
recruiter_required_any_role(token) ==
    IF DecodeToken(token) # NoResponse THEN DecodeToken(token)
    ELSE IF UserById(token.user_id) = {}
    THEN [status |-> 401, error |-> "User not found!"]
    ELSE NoResponse

\* auth.py lines 46-74
recruiter_required(token) ==
    IF DecodeToken(token) # NoResponse THEN DecodeToken(token)
    ELSE IF ~token.is_recruiter
    THEN [status |-> 403, error |-> "Recruiter access required!"]
    ELSE IF \/ UserById(token.user_id) = {}
            \/ \E k \in UserById(token.user_id) : ~user_table[k].is_recruiter
    THEN [status |-> 403, error |-> "Recruiter access required!"]
    ELSE NoResponse

\* the request bodies of create_interview: a well-formed one, and one for each
\* way of being wrong
InterviewRequests ==
    {[complete |-> TRUE, candidate_id |-> 1, position_id |-> 1, time_valid |-> TRUE],
     [complete |-> FALSE, candidate_id |-> 1, position_id |-> 1, time_valid |-> TRUE],
     [complete |-> TRUE, candidate_id |-> 9, position_id |-> 1, time_valid |-> TRUE],
     [complete |-> TRUE, candidate_id |-> 1, position_id |-> 9, time_valid |-> TRUE],
     [complete |-> TRUE, candidate_id |-> 1, position_id |-> 1, time_valid |-> FALSE]}

\* the job_position rows: one for each recruiter
PositionRows == [k \in 1..Len(recruiter_table) |-> [id |-> k, recruiter_id |-> recruiter_table[k].id]]

\* interview_routes.py lines 197-224: the early returns of the handler,
\* NoResponse when it goes on to create the interview
InterviewEarlyReturn(user_id, data) ==
    LET recruiters == {k \in 1..Len(recruiter_table) : recruiter_table[k].user_id = user_id}
        positions == {k \in 1..Len(PositionRows) : PositionRows[k].id = data.position_id}
    IN IF ~data.complete
       THEN [status |-> 400, error |-> "Missing required field"]
       ELSE IF recruiters = {}
       THEN [status |-> 404, error |-> "Recruiter profile not found"]
       ELSE IF \A k \in 1..Len(candidate_table) : candidate_table[k].id # data.candidate_id
       THEN [status |-> 404, error |-> "Candidate not found"]
       ELSE IF \/ positions = {}
               \/ \E p \in positions, r \in recruiters :
                      PositionRows[p].recruiter_id # recruiter_table[r].id
       THEN [status |-> 404, error |-> "Position not found or unauthorized"]
       ELSE IF ~data.time_valid
       THEN [status |-> 400, error |-> "Invalid scheduled_time format, use ISO 8601"]
       ELSE NoResponse

\* interview_routes.py lines 180-247, with its decorator
CreateInterview ==
    /\ handled < MaxAccountRequests
    /\ handled' = handled + 1
    /\ \E token \in TokenInputs, data \in InterviewRequests, committed \in BOOLEAN :
        /\ request' = [name |-> "create_interview", token |-> token, data |-> data]
        /\ IF recruiter_required(token) # NoResponse
           THEN /\ response' = recruiter_required(token)
                /\ UNCHANGED interview_table
           ELSE IF InterviewEarlyReturn(token.user_id, data) # NoResponse
           THEN /\ response' = InterviewEarlyReturn(token.user_id, data)
                /\ UNCHANGED interview_table
           ELSE IF ~committed
           THEN /\ response' = [status |-> 500, error |-> "Failed to schedule interview"]
                /\ UNCHANGED interview_table
           ELSE /\ response' = [status |-> 201, error |-> "none"]
                /\ interview_table' =
                       Append(interview_table,
                              [id |-> Len(interview_table) + 1,
                               candidate_id |-> data.candidate_id,
                               position_id |-> data.position_id,
                               recruiter_id |->
                                   recruiter_table[First({k \in 1..Len(recruiter_table) :
                                       recruiter_table[k].user_id = token.user_id})].id,
                               status |-> "scheduled"])
    /\ UNCHANGED <<user_table, candidate_table, recruiter_table, issued_tokens>>
    /\ UNCHANGED <<scoring_vars, exec_vars, run_vars, session_vars, match_vars, calc_vars>>
    /\ UNCHANGED <<submit_vars, skill_vars>>

\* candidate_routes.py lines 112-128, with its decorator, up to the reading of
\* the profile
GetOwnProfile ==
    /\ handled < MaxAccountRequests
    /\ handled' = handled + 1
    /\ \E token \in TokenInputs :
        /\ request' = [name |-> "get_own_profile", token |-> token]
        /\ response' =
               IF token_required(token) # NoResponse THEN token_required(token)
               ELSE IF \E k \in UserById(token.user_id) : user_table[k].is_recruiter
               THEN [status |-> 403, error |-> "Recruiter cannot access candidate profile"]
               ELSE IF \A k \in 1..Len(candidate_table) :
                           candidate_table[k].user_id # token.user_id
               THEN [status |-> 404, error |-> "Candidate profile not found"]
               ELSE [status |-> 200, error |-> "none"]
    /\ UNCHANGED account_vars
    /\ UNCHANGED <<scoring_vars, exec_vars, run_vars, session_vars, match_vars, calc_vars>>
    /\ UNCHANGED <<submit_vars, skill_vars>>

\* any sequence of requests to these endpoints on an empty database
InitAccounts ==
    /\ IdleScoring
    /\ IdleExecute
    /\ language = "python"
    /\ IdleRun
    /\ IdleSession
    /\ IdleMatch
    /\ IdleCalc
    /\ IdleWeb
NextAccounts == Register \/ Login \/ CreateInterview \/ GetOwnProfile
SpecAccounts == InitAccounts /\ [][NextAccounts]_vars

(***************************************************************************)
(* Claims about accounts and roles.                                        *)
(***************************************************************************)
UsersUnique(users) ==
    \A j, k \in 1..Len(users) :
        (users[j].username = users[k].username \/ users[j].email = users[k].email) => j = k

\* the step handled a complete registration request
RegisterCalled ==
    /\ handled' = handled + 1
    /\ request'.name = "register"
    /\ request'.complete

UsernameTaken == \E k \in 1..Len(user_table) : user_table[k].username = request'.username
EmailTaken == \E k \in 1..Len(user_table) : user_table[k].email = request'.email
\* the email is held by a user who has another username
EmailTakenByAnother ==
    \E k \in 1..Len(user_table) :
        user_table[k].email = request'.email /\ user_table[k].username # request'.username

\* the registration was rejected with that message and wrote nothing
RejectedWith(errors) ==
    /\ response'.status = 400
    /\ response'.error \in errors
    /\ UNCHANGED account_vars

\* C28 as stated: no two users share a username or an email; a registration
\* with a username that exists is rejected with 400 "Username already taken",
\* one with an email that exists with 400 "Email already registered", and the
\* rejected call creates no user and no profile.
C28_DuplicateRejectedByName ==
    [][/\ UsersUnique(user_table')
       /\ (RegisterCalled /\ UsernameTaken) => RejectedWith({"Username already taken"})
       /\ (RegisterCalled /\ ~UsernameTaken /\ EmailTaken) =>
              RejectedWith({"Email already registered"})]_vars

\* C28, amended: no two users share a username or an email; a registration
\* whose username or email exists is rejected with 400 and creates no user and
\* no profile; the error is "Username already taken" when no other user holds
\* the email, "Email already registered" when the username is free, and one
\* of the two when the username and the email are held by different users.
C28_DuplicateRejected ==
    [][/\ UsersUnique(user_table')
       /\ (RegisterCalled /\ (UsernameTaken \/ EmailTaken)) =>
              RejectedWith({"Username already taken", "Email already registered"})
       /\ (RegisterCalled /\ UsernameTaken /\ ~EmailTakenByAnother) =>
              RejectedWith({"Username already taken"})
       /\ (RegisterCalled /\ ~UsernameTaken /\ EmailTaken) =>
              RejectedWith({"Email already registered"})
       /\ (RegisterCalled /\ ~UsernameTaken /\ ~EmailTaken) => response'.status \in {201, 500}]_vars

\* a registration under the username of one user and the email of another
\* was rejected as "Email already registered"
C28_Witness ==
    /\ request # NoRequest
    /\ request.name = "register"
    /\ response.status = 400
    /\ response.error = "Email already registered"
    /\ Len(user_table) = 2
    /\ \E j, k \in 1..Len(user_table) :
           /\ j # k
           /\ user_table[j].username = request.username
           /\ user_table[k].email = request.email

\* a registration under an existing username and a new email was rejected
C28_UsernameTakenReached ==
    /\ request # NoRequest
    /\ request.name = "register"
    /\ response = [status |-> 400, error |-> "Username already taken"]
    /\ Len(user_table) = 1
    /\ user_table[1].username = request.username
    /\ user_table[1].email # request.email
    /\ Len(candidate_table) + Len(recruiter_table) = 1

\* the step handled a request to the named endpoint carrying a token this
\* server signed for a user of the given role, not expired
CalledAs(endpoint, is_recruiter) ==
    /\ handled' = handled + 1
    /\ request'.name = endpoint
    /\ request'.token.state = "valid"
    /\ request'.token.is_recruiter = is_recruiter

\* C29: a request to create_interview carrying a valid candidate token is
\* answered 403 and creates no interview (and changes nothing else); a request
\* to the candidate's own-profile endpoint carrying a valid recruiter token is
\* answered 403; every interview there is was created by a recruiter.
C29_RoleSeparation ==
    [][/\ CalledAs("create_interview", FALSE) =>
              /\ response'.status = 403
              /\ UNCHANGED account_vars
       /\ CalledAs("get_own_profile", TRUE) =>
              /\ response'.status = 403
              /\ UNCHANGED account_vars
       /\ \A n \in 1..Len(interview_table') :
              \E r \in 1..Len(recruiter_table') :
                  recruiter_table'[r].id = interview_table'[n].recruiter_id]_vars

\* a candidate asked for an interview that a recruiter could have scheduled,
\* and was refused
C29_Witness ==
    /\ request # NoRequest
    /\ request.name = "create_interview"
    /\ request.token.state = "valid"
    /\ ~request.token.is_recruiter
    /\ request.data = [complete |-> TRUE, candidate_id |-> 1, position_id |-> 1,
                       time_valid |-> TRUE]
    /\ Len(candidate_table) = 1
    /\ Len(recruiter_table) = 1
    /\ response = [status |-> 403, error |-> "Recruiter access required!"]
    /\ interview_table = <<>>

\* a recruiter scheduled an interview
C29_RecruiterCreatesReached ==
    /\ request # NoRequest
    /\ request.name = "create_interview"
    /\ request.token.is_recruiter
    /\ response.status = 201
    /\ Len(interview_table) = 1

\* a recruiter was refused the candidate's own profile
C29_RecruiterRefusedProfileReached ==
    /\ request # NoRequest
    /\ request.name = "get_own_profile"
    /\ request.token.state = "valid"
    /\ request.token.is_recruiter
    /\ response = [status |-> 403, error |-> "Recruiter cannot access candidate profile"]

\* a candidate read the own profile
C29_CandidateReadsProfileReached ==
    /\ request # NoRequest
    /\ request.name = "get_own_profile"
    /\ ~request.token.is_recruiter
    /\ response.status = 200

====
